---- MODULE Spec2Model ----
(***************************************************************************)
(* WhatsThatTune: the parallel clip pipeline of scripts/create_clips.py    *)
(* (ProgressTracker, process_single_url, process_urls_parallel) and the    *)
(* step timer of scripts/performance_logger.py (PerformanceLogger).        *)
(*                                                                         *)
(* Spec      one batch run: thread pool, per-item pipeline, tracker,       *)
(*           logger, the scheduler's collection loop.                      *)
(* FairSpec  Spec with the fairness of OS threads whose external calls     *)
(*           return.                                                       *)
(* SpecLog   the PerformanceLogger alone, called by arbitrary clients.     *)
(* SpecClip  the clip-window arithmetic of one pipeline run over a wide    *)
(*           range of durations and settings.                              *)
(***************************************************************************)
EXTENDS Integers, Sequences, FiniteSets, TLC

(* ------------------------------ bounds -------------------------------- *)
\* number of expanded urls of a batch
NumItems == 2
\* distinct source links (a url names one video, hence one downloaded file)
NumUrls == 2
\* last value of the wall clock, in milliseconds since the session start
MaxTime == 1
\* clients and calls of the logger-only specification
NumClients == 2
MaxCalls == 2
\* largest audio length (seconds) and offset bound of the clip specification
MaxClipSeconds == 50

\* Python's None: as a string where the value is text, as -1 where it is a time
None == "None"
NoTime == 0 - 1
NoFile == 0
NoTitle == << "", 0 >>
NoStep == << "", NoTitle, NoTime >>

VARIABLES
  \* create_clips.py: main / process_urls_parallel
  user_settings,      \* effective settings dict (get_user_settings)
  MAX_WORKERS,        \* module global, overwritten by main
  expanded_urls,      \* sequence of urls, index = item index
  schedPc,            \* position of the scheduler thread
  queue,              \* ThreadPoolExecutor work queue (item indices, FIFO)
  thread,             \* pool thread -> item it is running, 0 when idle
  item,               \* item index -> locals of its process_single_url call
  calls,              \* item index -> the calls its process_single_url made so far
  future,             \* item index -> result of its future, None until done
  completed_count, successful_results, failed_results,
  events,             \* batch_progress / completion events printed so far
  pending,            \* futures as_completed has not yielded yet
  \* the shared downloads directory
  files,
  \* ProgressTracker
  completed_videos, active_workers,
  \* PerformanceLogger
  active_steps, steps, now,
  \* clients of the logger-only specification; PerformanceLogger.lock and the
  \* workers of the lock specification
  client,
  \* the single run of the clip specification
  clip,
  \* callers of step_timer in the timer specification
  timer,
  \* SessionPerformance.end_time / summary, the session_performance events
  \* printed, and the module global _performance_logger
  session,
  \* the playlist expansion of the expansion specification
  expansion,
  \* one generate_wrong_options / create_quiz_game question
  quiz,
  \* ProgressTracker.lock and the callers of the tracker specification
  tracker,
  \* the settings file and what get_user_settings made of it
  config

vars == << user_settings, MAX_WORKERS, expanded_urls, schedPc, queue, thread,
           item, calls, future, completed_count, successful_results, failed_results,
           events, pending, files, completed_videos, active_workers, active_steps,
           steps, now, client, clip, timer, session, expansion, quiz, config, tracker >>

schedVars == << schedPc, completed_count, successful_results, failed_results, events >>
trackerVars == << completed_videos, active_workers >>
loggerVars == << active_steps, steps >>
otherSpecVars == << client, clip, timer, session, expansion, quiz, config, tracker >>

Urls == 1..NumUrls
Items == 1..Len(expanded_urls)

Min(a, b) == IF a < b THEN a ELSE b
Max(a, b) == IF a > b THEN a ELSE b

\* Messages of the code, by their fixed part:
\*   "download failed"      "다운로드 실패"
\*   "unexpected error: "   f"예상치 못한 오류: {str(e)}"
\*   "audio read failed: "  f"오디오 파일 읽기 실패: {str(e)}"
\*   "clip failed"          "클립 생성 실패"
\* An error text is << fixed part, str(e) >>; str(e) may be the empty string.
NoError == << None, None >>
ExceptionTexts == { "", "error" }
ErrorText(prefix, detail) == << prefix, detail >>
IsEmptyText(err) == err[1] = "" /\ err[2] = ""

(* ------------------------- get_user_settings --------------------------- *)
\* settings.update(user_settings) over the defaults, then the two clamps
GetUserSettings(raw) ==
  [ clip_duration |-> IF raw.clip_duration > 10 THEN 10 ELSE raw.clip_duration,
    clip_start_offset |-> raw.clip_start_offset,
    cleanup_full_downloads |-> raw.cleanup_full_downloads,
    max_workers |-> IF raw.max_workers < 1 THEN 1
                    ELSE IF raw.max_workers > 5 THEN 5 ELSE raw.max_workers ]

DefaultSettings ==
  [ clip_duration |-> 10, clip_start_offset |-> 30,
    cleanup_full_downloads |-> TRUE, max_workers |-> 3 ]

(* ------------------------- PerformanceLogger --------------------------- *)
\* step_id = f"{step_name}_{song_title}_{int(time.time() * 1000)}"
StepId(step_name, song_title) == << step_name, song_title, now >>

\* StepPerformance(...) of start_step; `call` is not a field of the code: it
\* names the start_step call that built the record
NewStep(step_name, step_type, song_title, call) ==
  [ step_name |-> step_name, step_type |-> step_type, song_title |-> song_title,
    start_time |-> now, end_time |-> NoTime, duration |-> NoTime,
    success |-> FALSE, error_message |-> NoError, call |-> call ]

\* with self.lock: self.active_steps[step_id] = step
start_step(active, step_name, step_type, song_title, call) ==
  LET id == StepId(step_name, song_title) IN
  [ x \in DOMAIN active \cup {id} |->
      IF x = id THEN NewStep(step_name, step_type, song_title, call) ELSE active[x] ]

\* the record end_step seals: end_time, duration, success, error_message
SealStep(step, success, error_message) ==
  [ step EXCEPT !.end_time = now, !.duration = now - step.start_time,
                !.success = success, !.error_message = error_message ]

\* end_step: the active map afterwards (pop)
end_step_active(active, step_id) ==
  [ x \in DOMAIN active \ {step_id} |-> active[x] ]

\* a variant of end_step_steps that seals a record for an unknown id too
end_step_steps_sealing_unknown(active, sealed, step_id, success, error_message) ==
  Append(sealed,
         SealStep(IF step_id \in DOMAIN active THEN active[step_id]
                  ELSE NewStep(step_id[1], "unknown", step_id[2], << 0, 0 >>),
                  success, error_message))

\* end_step: session.steps afterwards (append, or untouched for an unknown id)
end_step_steps(active, sealed, step_id, success, error_message) ==
  IF step_id \in DOMAIN active
  THEN Append(sealed, SealStep(active[step_id], success, error_message))
  ELSE sealed

\* end_step: the value returned
end_step_return(active, step_id) ==
  IF step_id \in DOMAIN active THEN now - active[step_id].start_time ELSE NoTime

(* --------------------------- ProgressTracker --------------------------- *)
\* a variant of add_completed_video that keeps the newest entry only
add_completed_video_newest_only(videos, title, status, error) ==
  << [title |-> title, status |-> status,
      error |-> IF IsEmptyText(error) THEN NoError ELSE error] >>

\* `if error:` stores the text only when it is neither None nor empty
add_completed_video(videos, title, status, error) ==
  Append(videos, [title |-> title, status |-> status,
                  error |-> IF IsEmptyText(error) THEN NoError ELSE error])

set_worker_status(workers, worker_id, video_title, stage) ==
  [ x \in DOMAIN workers \cup {worker_id} |->
      IF x = worker_id THEN [video_title |-> video_title, stage |-> stage]
      ELSE workers[x] ]

\* a variant of remove_worker that leaves the entry where it is
remove_worker_kept(workers, worker_id) == workers

remove_worker(workers, worker_id) ==
  [ x \in DOMAIN workers \ {worker_id} |-> workers[x] ]

get_progress_data ==
  [ completed_videos |-> completed_videos,
    active_workers |-> { active_workers[w] : w \in DOMAIN active_workers } ]

(* -------------------------- process_single_url ------------------------- *)
NoSongData ==
  [ title |-> NoTitle, audio_path |-> NoFile, clip_path |-> NoFile,
    duration |-> NoTime, clip_start |-> NoTime, clip_duration |-> NoTime ]

\* ProcessingResult(success, url, song_data, error); `index` is not a field of
\* the code: it names the process_single_url call that built the result
ProcessingResult(success, url, song_data, error, index) ==
  [ success |-> success, url |-> url, song_data |-> song_data,
    error |-> error, index |-> index ]

\* song_title = f"곡 {index}/{total}"
InitialTitle(index) == << "song", index >>
\* worker_id = f"worker_{threading.current_thread().ident}_{index}"
WorkerId(i) == << item[i].thread, i >>

\* a variant of ClipStart without the 5 second margin
ClipStartNoMargin(settings, duration_seconds) ==
  Min(settings.clip_start_offset,
      Max(0, duration_seconds - settings.clip_duration))

\* clip_start = min(offset, max(0, duration_seconds - clip_duration - 5))
ClipStart(settings, duration_seconds) ==
  Min(settings.clip_start_offset,
      Max(0, duration_seconds - settings.clip_duration - 5))

\* create_clip: the window [start_time, start_time + duration) it slices
CreateClipWindow(len_ms, start_time, duration) ==
  IF len_ms < (start_time + duration) * 1000
  THEN LET s == Max(0, (len_ms \div 1000) - duration) IN
       IF s < 0 THEN [start_time |-> 0, duration |-> len_ms \div 1000]
       ELSE [start_time |-> s, duration |-> duration]
  ELSE [start_time |-> start_time, duration |-> duration]

\* song_data of step 6
SongData(title, full_path_for_data, clip_path, duration_seconds, clip_start, settings) ==
  [ title |-> title, audio_path |-> full_path_for_data, clip_path |-> clip_path,
    duration |-> duration_seconds, clip_start |-> clip_start,
    clip_duration |-> settings.clip_duration ]

NewItem(i) ==
  [ pc |-> "queued", thread |-> 0, song_title |-> InitialTitle(i),
    audio_path |-> NoFile, step_id |-> NoStep, len_ms |-> NoTime,
    duration_seconds |-> NoTime, clip_start |-> NoTime, clip_path |-> NoFile ]

\* a variant of ReturnedItem in which a run that is over goes on at its clip
\* stage
ReturnedItemBackAtClip(i) == [ NewItem(i) EXCEPT !.pc = "clip" ]

\* a variant of ReturnedItem in which a run that is over tries its download
\* again
ReturnedItemBackAtDownload(i) == [ NewItem(i) EXCEPT !.pc = "download" ]

\* process_single_url returned: its locals are gone
ReturnedItem(i) == [ NewItem(i) EXCEPT !.pc = "returned" ]

\* a variant of Returned in which a failed run takes its pool thread down
\* with it: the future is never resolved
ReturnedUnlessFailed(i, result) ==
  /\ thread' = [thread EXCEPT ![item[i].thread] = 0]
  /\ future' = IF result.success THEN [future EXCEPT ![i] = << result >>] ELSE future
  /\ UNCHANGED queue

\* the pool thread hands the returned value to the future and is idle again
Returned(i, result) ==
  /\ thread' = [thread EXCEPT ![item[i].thread] = 0]
  /\ future' = [future EXCEPT ![i] = << result >>]
  /\ UNCHANGED queue

EndCurrentStep(i, success, error_message) ==
  /\ active_steps' = end_step_active(active_steps, item[i].step_id)
  /\ steps' = end_step_steps(active_steps, steps, item[i].step_id, success, error_message)

settingsVars == << user_settings, MAX_WORKERS, expanded_urls >>

\* One call of process_single_url, in the order of the code: op is the
\* function called, what its stage, step name or status argument, ok the
\* success argument of end_step_timing and of the ProcessingResult returned
\* (TRUE where the call has none).  The call of a collaborator (yt-dlp,
\* mutagen, pydub, os.remove) is followed by its outcome once it is back.
Call(op, what, ok) == [ op |-> op, what |-> what, ok |-> ok ]
SetWorkerStatus(stage) == Call("set_worker_status", stage, TRUE)
StartStep(step_name) == Call("start_step_timing", step_name, TRUE)
EndStep(step_name, success) == Call("end_step_timing", step_name, success)
External(function) == Call(function, "", TRUE)
Outcome(outcome) == Call("outcome", outcome, TRUE)
AddCompleted(status) == Call("add_completed_video", status, TRUE)
RemoveWorker == Call("remove_worker", "", TRUE)
Return(success) == Call("return", "", success)

\* the run of item i went on with the calls `made`
Made(i, made) == calls' = [calls EXCEPT ![i] = @ \o made]

\* what cleanup_full_download(path) did in this step: os.path.exists was
\* false, os.remove raised (printed and swallowed), or the file is gone
CleanupOutcome(path) ==
  IF path \notin files THEN "absent" ELSE IF path \in files' THEN "failed" ELSE "removed"

\* lines 211-212 and 239-240 as calls
ConditionalCleanupCalls(path) ==
  IF user_settings.cleanup_full_downloads
  THEN << External("cleanup_full_download"), Outcome(CleanupOutcome(path)) >> ELSE << >>
poolVars == << queue, thread, future >>


\* start_step_timing(name, type, song_title) on top of the active map `active`;
\* the step is named after the item and the step name
StartItemStep(active, i, step_name, step_type, song_title) ==
  start_step(active, step_name, step_type, song_title, << i, step_name >>)

\* A worker's action runs from the return of one blocking external call
\* (yt-dlp, mutagen, pydub, os.remove) to the start of the next one: the
\* tracker and logger calls in between each hold their lock for the call only.

\* download_audio returned a path: yt-dlp wrote the url's file, and the path is
\* the first *.mp3 the directory listing yields (st_mtime > subprocess.PIPE
\* holds of every file), i.e. any file of the directory; lines 163-174, then
\* lines 182-183: status, start of the metadata step
DownloadOk(i) ==
  /\ item[i].pc = "download"
  /\ files' = files \cup { expanded_urls[i] }
  /\ Made(i, << Outcome("path"), EndStep("Audio Download", TRUE),
                SetWorkerStatus("metadata"),
                StartStep("Metadata Extraction"), External("extract_metadata") >>)
  /\ \E path \in files' :
       item' = [item EXCEPT ![i].pc = "metadata", ![i].audio_path = path,
                  ![i].step_id = StepId("Metadata Extraction", item[i].song_title)]
  /\ active_workers' = set_worker_status(active_workers, WorkerId(i),
                                         item[i].song_title, "metadata")
  /\ active_steps' = StartItemStep(end_step_active(active_steps, item[i].step_id), i,
                        "Metadata Extraction", "metadata_extraction", item[i].song_title)
  /\ steps' = end_step_steps(active_steps, steps, item[i].step_id, TRUE, NoError)
  /\ UNCHANGED << settingsVars, schedVars, poolVars, pending, completed_videos,
                  now, otherSpecVars >>

\* download_audio returned None (CalledProcessError); lines 164-173
DownloadFailed(i) ==
  /\ item[i].pc = "download"
  /\ Made(i, << Outcome("None"), EndStep("Audio Download", FALSE),
                AddCompleted("failed"), RemoveWorker, Return(FALSE) >>)
  /\ EndCurrentStep(i, FALSE, ErrorText("download failed", ""))
  /\ completed_videos' = add_completed_video(completed_videos, item[i].song_title,
                            "failed", ErrorText("download failed", ""))
  /\ active_workers' = remove_worker(active_workers, WorkerId(i))
  /\ item' = [item EXCEPT ![i] = ReturnedItem(i)]
  /\ Returned(i, ProcessingResult(FALSE, expanded_urls[i], NoSongData,
                                  ErrorText("download failed", ""), i))
  /\ UNCHANGED << settingsVars, schedVars, pending, files, now, otherSpecVars >>

\* what the outer `except Exception` appends to the tracker; lines 300-302
UnexpectedCompleted(videos, title, e) ==
  add_completed_video(videos, title, "failed", ErrorText("unexpected error: ", e))

\* a variant of UnexpectedResult whose error is str(e) alone
UnexpectedResultBareText(i, e) ==
  ProcessingResult(FALSE, expanded_urls[i], NoSongData, ErrorText("", e), i)

\* the result the outer `except Exception` returns; lines 303-308
UnexpectedResult(i, e) ==
  ProcessingResult(FALSE, expanded_urls[i], NoSongData,
                   ErrorText("unexpected error: ", e), i)

\* download_audio raised (anything but CalledProcessError, e.g. yt-dlp is not
\* installed): lines 175-179 re-raise into lines 300-308
DownloadRaised(i) ==
  /\ item[i].pc = "download"
  /\ Made(i, << Outcome("raised"), EndStep("Audio Download", FALSE),
                AddCompleted("failed"), RemoveWorker,
                AddCompleted("failed"), RemoveWorker, Return(FALSE) >>)
  /\ \E e \in ExceptionTexts :
       /\ EndCurrentStep(i, FALSE, ErrorText("", e))
       /\ completed_videos' =
            UnexpectedCompleted(
              add_completed_video(completed_videos, item[i].song_title, "failed",
                                  ErrorText("", e)),
              item[i].song_title, e)
       /\ Returned(i, UnexpectedResult(i, e))
  /\ active_workers' = remove_worker(remove_worker(active_workers, WorkerId(i)),
                                     WorkerId(i))
  /\ item' = [item EXCEPT ![i] = ReturnedItem(i)]
  /\ UNCHANGED << settingsVars, schedVars, pending, files, now, otherSpecVars >>

\* the downloaded files that carry a TIT2 tag: those of the even urls
HasTitleTag(path) == path % 2 = 0

\* a variant of extract_metadata that knows the TIT2 tag only
extract_metadata_tag_only(path) ==
  IF path \in files /\ HasTitleTag(path) THEN << "tag", path >> ELSE NoTitle

\* extract_metadata: the TIT2 tag of a readable file that has one, else the
\* stem of the file name (also on any exception: the function never raises)
extract_metadata(path) ==
  IF path \in files /\ HasTitleTag(path) THEN << "tag", path >> ELSE << "stem", path >>

\* lines 186-189 and 196-197 (the handler of lines 190-194 needs
\* extract_metadata to raise, which its own `except (ID3NoHeaderError,
\* Exception)` excludes), then lines 200-201: status, start of the analysis step
Metadata(i) ==
  /\ item[i].pc = "metadata"
  /\ Made(i, << Outcome(extract_metadata(item[i].audio_path)[1]),
                SetWorkerStatus("metadata"), EndStep("Metadata Extraction", TRUE),
                SetWorkerStatus("analysis"), StartStep("Audio Analysis"),
                External("from_mp3") >>)
  /\ LET title == extract_metadata(item[i].audio_path) IN
       /\ item' = [item EXCEPT ![i].pc = "analysis", ![i].song_title = title,
                               ![i].step_id = StepId("Audio Analysis", title)]
       /\ active_workers' = set_worker_status(
                              set_worker_status(active_workers, WorkerId(i), title, "metadata"),
                              WorkerId(i), title, "analysis")
       /\ active_steps' = StartItemStep(end_step_active(active_steps, item[i].step_id), i,
                             "Audio Analysis", "metadata_extraction", title)
  /\ steps' = end_step_steps(active_steps, steps, item[i].step_id, TRUE, NoError)
  /\ UNCHANGED << settingsVars, schedVars, poolVars, pending, files,
                  completed_videos, now, otherSpecVars >>

\* len(AudioSegment.from_mp3(path)) in milliseconds: the video of url 1 is
\* shorter than a clip, the others are longer than offset + clip + margin
AudioLength(path) == IF path = 1 THEN 7999 ELSE 50000

\* lines 204-206: the file decodes, duration_seconds = len(audio) // 1000;
\* then lines 221-229: status, progress line, start of the clip step, and
\* line 232 with a clip_start_offset that is a number
AnalysisOk(i) ==
  /\ item[i].pc = "analysis"
  /\ item[i].audio_path \in files
  /\ user_settings.clip_start_offset # NoTime
  /\ Made(i, << Outcome("audio"), EndStep("Audio Analysis", TRUE), SetWorkerStatus("clip"),
                StartStep("Clip Generation"), External("create_clip") >>)
  /\ LET len_ms == AudioLength(item[i].audio_path) IN
       item' = [item EXCEPT ![i].pc = "clip", ![i].len_ms = len_ms,
                  ![i].duration_seconds = len_ms \div 1000,
                  ![i].step_id = StepId("Clip Generation", item[i].song_title)]
  /\ active_workers' = set_worker_status(active_workers, WorkerId(i),
                                         item[i].song_title, "clip")
  /\ active_steps' = StartItemStep(end_step_active(active_steps, item[i].step_id), i,
                        "Clip Generation", "clip_generation", item[i].song_title)
  /\ steps' = end_step_steps(active_steps, steps, item[i].step_id, TRUE, NoError)
  /\ UNCHANGED << settingsVars, schedVars, poolVars, pending, files,
                  completed_videos, now, otherSpecVars >>

\* cleanup_full_download: os.remove of an existing file either removes it or
\* fails (the exception is printed and swallowed); a missing file is left alone
CleanupOutcomes(path) == IF path \in files THEN { "removed", "failed" } ELSE { "absent" }
cleanup_full_download(path, outcome) ==
  IF outcome = "removed" THEN files \ { path } ELSE files

\* `if user_settings.get('cleanup_full_downloads', True): cleanup_full_download(..)`
\* of the two failure paths, lines 211-212 and 239-240
ConditionalCleanup(i) ==
  IF user_settings.cleanup_full_downloads
  THEN \E outcome \in CleanupOutcomes(item[i].audio_path) :
         files' = cleanup_full_download(item[i].audio_path, outcome)
  ELSE files' = files

\* lines 207-218: from_mp3 raised (missing or undecodable file)
AnalysisFailed(i) ==
  /\ item[i].pc = "analysis"
  /\ \E e \in ExceptionTexts :
       /\ EndCurrentStep(i, FALSE, ErrorText("", e))
       /\ completed_videos' = add_completed_video(completed_videos, item[i].song_title,
                                 "failed", ErrorText("audio read failed: ", e))
       /\ Returned(i, ProcessingResult(FALSE, expanded_urls[i], NoSongData,
                                       ErrorText("audio read failed: ", e), i))
  /\ active_workers' = remove_worker(active_workers, WorkerId(i))
  /\ ConditionalCleanup(i)
  /\ Made(i, << Outcome("raised"), EndStep("Audio Analysis", FALSE),
                AddCompleted("failed"), RemoveWorker >>
                \o ConditionalCleanupCalls(item[i].audio_path) \o << Return(FALSE) >>)
  /\ item' = [item EXCEPT ![i] = ReturnedItem(i)]
  /\ UNCHANGED << settingsVars, schedVars, pending, now, otherSpecVars >>

\* a variant of SuccessResult that takes the url by the position of the run
\* among the runs that are over
SuccessResultByCompletionOrder(i, clip_start, clip_path, full_path_for_data) ==
  ProcessingResult(TRUE,
    expanded_urls[Cardinality({ j \in Items : item[j].pc = "returned" }) + 1],
    SongData(item[i].song_title, full_path_for_data, clip_path,
             item[i].duration_seconds, clip_start, user_settings),
    NoError, i)

\* a variant of SuccessResult that reports a failure when the cleanup stage
\* left the download in place
SuccessResultIfRemoved(i, clip_start, clip_path, full_path_for_data) ==
  IF full_path_for_data = NoFile /\ item[i].audio_path \in files'
  THEN ProcessingResult(FALSE, expanded_urls[i], NoSongData,
                        ErrorText("cleanup failed", ""), i)
  ELSE ProcessingResult(TRUE, expanded_urls[i],
         SongData(item[i].song_title, full_path_for_data, clip_path,
                  item[i].duration_seconds, clip_start, user_settings),
         NoError, i)

\* the ProcessingResult of lines 277-298
SuccessResult(i, clip_start, clip_path, full_path_for_data) ==
  ProcessingResult(TRUE, expanded_urls[i],
    SongData(item[i].song_title, full_path_for_data, clip_path,
             item[i].duration_seconds, clip_start, user_settings),
    NoError, i)

\* lines 232-233 and 248-252: create_clip returned the clip's path; then
\* line 260 and, with cleanup_full_downloads, lines 263-266: start of the
\* cleanup step; without it lines 277-298: the successful result
ClipOk(i) ==
  /\ item[i].pc = "clip"
  /\ item[i].audio_path \in files
  /\ Made(i, << Outcome("path"), EndStep("Clip Generation", TRUE),
                SetWorkerStatus("cleanup") >>
                \o (IF user_settings.cleanup_full_downloads
                    THEN << StartStep("File Cleanup"), External("cleanup_full_download") >>
                    ELSE << AddCompleted("success"), RemoveWorker, Return(TRUE) >>))
  /\ steps' = end_step_steps(active_steps, steps, item[i].step_id, TRUE, NoError)
  /\ LET clip_start == ClipStart(user_settings, item[i].duration_seconds)
         clip_path == item[i].audio_path
     IN
     IF user_settings.cleanup_full_downloads
     THEN /\ item' = [item EXCEPT ![i].pc = "cleanup", ![i].clip_start = clip_start,
                        ![i].clip_path = clip_path,
                        ![i].step_id = StepId("File Cleanup", item[i].song_title)]
          /\ active_workers' = set_worker_status(active_workers, WorkerId(i),
                                                 item[i].song_title, "cleanup")
          /\ active_steps' = StartItemStep(end_step_active(active_steps, item[i].step_id),
                                i, "File Cleanup", "file_cleanup", item[i].song_title)
          /\ UNCHANGED << completed_videos, poolVars >>
     ELSE /\ item' = [item EXCEPT ![i] = ReturnedItem(i)]
          /\ active_workers' = remove_worker(
                 set_worker_status(active_workers, WorkerId(i), item[i].song_title, "cleanup"),
                 WorkerId(i))
          /\ active_steps' = end_step_active(active_steps, item[i].step_id)
          /\ completed_videos' = add_completed_video(completed_videos,
                                    item[i].song_title, "success", NoError)
          /\ Returned(i, SuccessResult(i, clip_start, clip_path, item[i].audio_path))
  /\ UNCHANGED << settingsVars, schedVars, pending, files, now, otherSpecVars >>

\* lines 235-246: create_clip returned None (it catches every exception:
\* missing file, decode or export error)
ClipFailed(i) ==
  /\ item[i].pc = "clip"
  /\ EndCurrentStep(i, FALSE, ErrorText("clip failed", ""))
  /\ completed_videos' = add_completed_video(completed_videos, item[i].song_title,
                            "failed", ErrorText("clip failed", ""))
  /\ active_workers' = remove_worker(active_workers, WorkerId(i))
  /\ ConditionalCleanup(i)
  /\ Made(i, << Outcome("None"), EndStep("Clip Generation", FALSE),
                AddCompleted("failed"), RemoveWorker >>
                \o ConditionalCleanupCalls(item[i].audio_path) \o << Return(FALSE) >>)
  /\ item' = [item EXCEPT ![i] = ReturnedItem(i)]
  /\ Returned(i, ProcessingResult(FALSE, expanded_urls[i], NoSongData,
                                  ErrorText("clip failed", ""), i))
  /\ UNCHANGED << settingsVars, schedVars, pending, now, otherSpecVars >>

\* lines 204-206 and 221-229 as in AnalysisOk, with a clip_start_offset that
\* is no number (user_settings.json may hold null or a text for the key, which
\* get_user_settings passes on): min() of line 232 raises TypeError before
\* create_clip is called; lines 253-257 seal the clip step as a failure and
\* re-raise into lines 300-308.  No line of this path removes the download.
ClipRaised(i) ==
  /\ item[i].pc = "analysis"
  /\ item[i].audio_path \in files
  /\ user_settings.clip_start_offset = NoTime
  /\ Made(i, << Outcome("audio"), EndStep("Audio Analysis", TRUE), SetWorkerStatus("clip"),
                StartStep("Clip Generation"), EndStep("Clip Generation", FALSE),
                AddCompleted("failed"), RemoveWorker,
                AddCompleted("failed"), RemoveWorker, Return(FALSE) >>)
  /\ LET e == "error"
         clip_step_id == StepId("Clip Generation", item[i].song_title)
         analysed == end_step_active(active_steps, item[i].step_id)
         started == StartItemStep(analysed, i, "Clip Generation", "clip_generation",
                                  item[i].song_title)
     IN
     /\ active_steps' = end_step_active(started, clip_step_id)
     /\ steps' = end_step_steps(started,
                    end_step_steps(active_steps, steps, item[i].step_id, TRUE, NoError),
                    clip_step_id, FALSE, ErrorText("", e))
     /\ completed_videos' =
          UnexpectedCompleted(
            add_completed_video(completed_videos, item[i].song_title, "failed",
                                ErrorText("", e)),
            item[i].song_title, e)
     /\ Returned(i, UnexpectedResult(i, e))
  /\ active_workers' = remove_worker(remove_worker(
         set_worker_status(active_workers, WorkerId(i), item[i].song_title, "clip"),
         WorkerId(i)), WorkerId(i))
  /\ item' = [item EXCEPT ![i] = ReturnedItem(i)]
  /\ UNCHANGED << settingsVars, schedVars, pending, files, now, otherSpecVars >>

\* lines 268-271: cleanup_full_download never raises, so the step is sealed as
\* a success and full_path_for_data is None whatever os.remove did; then
\* lines 277-298: the successful result
Cleanup(i) ==
  /\ item[i].pc = "cleanup"
  /\ \E outcome \in CleanupOutcomes(item[i].audio_path) :
       files' = cleanup_full_download(item[i].audio_path, outcome)
  /\ Made(i, << Outcome(CleanupOutcome(item[i].audio_path)), EndStep("File Cleanup", TRUE),
                AddCompleted("success"), RemoveWorker, Return(TRUE) >>)
  /\ EndCurrentStep(i, TRUE, NoError)
  /\ completed_videos' = add_completed_video(completed_videos, item[i].song_title,
                                             "success", NoError)
  /\ active_workers' = remove_worker(active_workers, WorkerId(i))
  /\ item' = [item EXCEPT ![i] = ReturnedItem(i)]
  /\ Returned(i, SuccessResult(i, item[i].clip_start, item[i].clip_path, NoFile))
  /\ UNCHANGED << settingsVars, schedVars, pending, now, otherSpecVars >>

(* ------------------------ process_urls_parallel ------------------------ *)
\* ThreadPoolExecutor(max_workers=MAX_WORKERS): the pool's threads
PoolThreads == 1..MAX_WORKERS

\* lines 628-637: the result lists, the executor, one future per expanded url
StartBatch ==
  /\ schedPc = "start"
  /\ schedPc' = "collect"
  /\ queue' = [ k \in 1..Len(expanded_urls) |-> k ]
  /\ pending' = Items
  /\ completed_count' = 0
  /\ successful_results' = << >>
  /\ failed_results' = << >>
  /\ UNCHANGED << settingsVars, thread, item, calls, future, events, files, trackerVars,
                  loggerVars, now, otherSpecVars >>

\* a variant of IdleThreads in which a busy thread takes work as well
IdleThreadsOrBusy == PoolThreads

\* the threads that may take the next work item
IdleThreads == { t \in PoolThreads : thread[t] = 0 }


\* an idle pool thread takes the head of the work queue and calls
\* process_single_url(url, i, total_songs, user_settings, start_time), which
\* runs lines 150-160: status, progress line, start of the download step
Dispatch(t) ==
  /\ schedPc = "collect"
  /\ t \in IdleThreads
  /\ queue # << >>
  /\ LET i == Head(queue) IN
       /\ item' = [item EXCEPT ![i].pc = "download", ![i].thread = t,
                     ![i].step_id = StepId("Audio Download", InitialTitle(i))]
       /\ thread' = [thread EXCEPT ![t] = i]
       /\ Made(i, << SetWorkerStatus("downloading"), StartStep("Audio Download"),
                     External("download_audio") >>)
       /\ active_workers' = set_worker_status(active_workers, << t, i >>,
                                              InitialTitle(i), "downloading")
       /\ active_steps' = StartItemStep(active_steps, i, "Audio Download", "download",
                                        InitialTitle(i))
  /\ queue' = Tail(queue)
  /\ UNCHANGED << settingsVars, schedVars, future, pending, files, completed_videos,
                  steps, now, otherSpecVars >>

\* a variant of CollectFailed that keeps no failed result
CollectFailedDropped(results, result) == results

\* lines 647-659
CollectSuccessful(results, result) ==
  IF result.success THEN Append(results, result) ELSE results
CollectFailed(results, result) ==
  IF result.success THEN results ELSE Append(results, result)

\* a variant of BatchProgress without the snapshot of the final completion
BatchProgressEveryFifthOnly(count, total, successful, failed) ==
  IF count % 5 = 0
  THEN << [ type |-> "batch_progress", completed |-> count,
            successful |-> Len(successful), failed |-> Len(failed) ] >>
  ELSE << >>

\* lines 662-682
BatchProgress(count, total, successful, failed) ==
  IF count % 5 = 0 \/ count = total
  THEN << [ type |-> "batch_progress", completed |-> count,
            successful |-> Len(successful), failed |-> Len(failed) ] >>
  ELSE << >>

\* one iteration of `for future in as_completed(future_to_url)`, lines 640-682
Collect(i) ==
  /\ schedPc = "collect"
  /\ i \in pending
  /\ future[i] # << >>
  /\ pending' = pending \ { i }
  /\ completed_count' = completed_count + 1
  /\ successful_results' = CollectSuccessful(successful_results, future[i][1])
  /\ failed_results' = CollectFailed(failed_results, future[i][1])
  /\ events' = events \o BatchProgress(completed_count', Len(expanded_urls),
                                       successful_results', failed_results')
  /\ UNCHANGED << settingsVars, schedPc, poolVars, item, calls, files, trackerVars,
                  loggerVars, now, otherSpecVars >>

\* a variant of CompletionEvents that stays silent when no song was made
CompletionEventsIfAnySong(total, successful, failed) ==
  IF successful = << >> THEN << >>
  ELSE << [ type |-> "completion", completed |-> total,
            successful |-> Len(successful), failed |-> Len(failed) ] >>

\* lines 718-763: the completion event, of the same shape on both branches of
\* `if all_songs_data`
CompletionEvents(total, successful, failed) ==
  << [ type |-> "completion", completed |-> total,
       successful |-> Len(successful), failed |-> Len(failed) ] >>

\* lines 695-763: the loop is over; one completion event on either branch
EmitCompletion ==
  /\ schedPc = "collect"
  /\ pending = {}
  /\ schedPc' = "done"
  /\ events' = events \o CompletionEvents(Len(expanded_urls), successful_results,
                                          failed_results)
  /\ UNCHANGED << settingsVars, completed_count, successful_results, failed_results,
                  poolVars, item, calls, pending, files, trackerVars, loggerVars, now,
                  otherSpecVars >>

\* the wall clock advances (time.time())
Tick ==
  /\ now < MaxTime
  /\ now' = now + 1
  /\ UNCHANGED << settingsVars, schedVars, poolVars, item, calls, pending, files,
                  trackerVars, loggerVars, otherSpecVars >>

(* ------------------------------- main ---------------------------------- *)
\* values user_settings.json may hold
RawSettings ==
  [ clip_duration : { 10 }, clip_start_offset : { 30 },
    cleanup_full_downloads : BOOLEAN, max_workers : { 0, 2 } ]

\* the url lists of a batch, urls numbered in the order of their first use
ExpandedUrlLists ==
  { u \in UNION { [ 1..n -> Urls ] : n \in 0..NumItems } :
      \A k \in 1..Len(u) : u[k] <= 1 + Cardinality({ u[j] : j \in 1..(k-1) }) }

IdleClient == [ k \in {} |-> 0 ]
IdleClip == [ pc |-> "off" ]
IdleTimer == [ k \in {} |-> 0 ]
IdleSession == [ pc |-> "off" ]
IdleExpansion == [ pc |-> "off" ]
IdleQuiz == [ pc |-> "off" ]
IdleConfig == [ pc |-> "off" ]
IdleTracker == [ lock |-> 0 ]

\* main after init_performance_logger and get_user_settings, lines 791-812
Init ==
  /\ \E raw \in RawSettings :
       /\ user_settings = GetUserSettings(raw)
       /\ MAX_WORKERS = GetUserSettings(raw).max_workers
  /\ expanded_urls \in ExpandedUrlLists
  /\ schedPc = "start"
  /\ queue = << >>
  /\ thread = [ t \in 1..5 |-> 0 ]
  /\ item = [ i \in 1..Len(expanded_urls) |-> NewItem(i) ]
  /\ calls = [ i \in 1..Len(expanded_urls) |-> << >> ]
  /\ future = [ i \in 1..Len(expanded_urls) |-> << >> ]
  /\ completed_count = 0
  /\ successful_results = << >>
  /\ failed_results = << >>
  /\ events = << >>
  /\ pending = {}
  /\ files = {}
  /\ completed_videos = << >>
  /\ active_workers = [ w \in {} |-> 0 ]
  /\ active_steps = [ s \in {} |-> 0 ]
  /\ steps = << >>
  /\ now = 0
  /\ client = IdleClient
  /\ clip = IdleClip
  /\ timer = IdleTimer
  /\ session = IdleSession
  /\ expansion = IdleExpansion
  /\ quiz = IdleQuiz
  /\ config = IdleConfig
  /\ tracker = IdleTracker

Next ==
  \/ StartBatch
  \/ \E t \in PoolThreads : Dispatch(t)
  \/ \E i \in Items : DownloadOk(i)
  \/ \E i \in Items : DownloadFailed(i)
  \/ \E i \in Items : DownloadRaised(i)
  \/ \E i \in Items : Metadata(i)
  \/ \E i \in Items : AnalysisOk(i)
  \/ \E i \in Items : AnalysisFailed(i)
  \/ \E i \in Items : ClipOk(i)
  \/ \E i \in Items : ClipFailed(i)
  \/ \E i \in Items : Cleanup(i)
  \/ \E i \in Items : Collect(i)
  \/ EmitCompletion
  \/ Tick

Spec == Init /\ [][Next]_vars


\* OS threads run whenever they can and every external call returns: each
\* enabled step of the batch is eventually taken.  The clock is left out: the
\* run's control flow does not read it.
NextRun ==
  \/ StartBatch
  \/ \E t \in PoolThreads : Dispatch(t)
  \/ \E i \in Items : DownloadOk(i)
  \/ \E i \in Items : DownloadFailed(i)
  \/ \E i \in Items : DownloadRaised(i)
  \/ \E i \in Items : Metadata(i)
  \/ \E i \in Items : AnalysisOk(i)
  \/ \E i \in Items : AnalysisFailed(i)
  \/ \E i \in Items : ClipOk(i)
  \/ \E i \in Items : ClipFailed(i)
  \/ \E i \in Items : Cleanup(i)
  \/ \E i \in Items : Collect(i)
  \/ EmitCompletion

FairSpec == Init /\ [][NextRun]_vars /\ WF_vars(NextRun)

(* ---------------------- one pipeline run on its own -------------------- *)
\* A batch of one link: a single process_single_url call, from its submission
\* to the collection of its result.  The downloads directory may hold files
\* of earlier batches, and user_settings.json may hold a clip_start_offset
\* that is no number (NoTime stands for it).
RunRawSettings ==
  [ clip_duration : { 10 }, clip_start_offset : { 30, NoTime },
    cleanup_full_downloads : BOOLEAN, max_workers : { 0, 2 } ]

RunInit ==
  /\ \E raw \in RunRawSettings :
       /\ user_settings = GetUserSettings(raw)
       /\ MAX_WORKERS = GetUserSettings(raw).max_workers
  /\ expanded_urls \in { << u >> : u \in Urls }
  /\ schedPc = "start"
  /\ queue = << >>
  /\ thread = [ t \in 1..5 |-> 0 ]
  /\ item = [ i \in 1..Len(expanded_urls) |-> NewItem(i) ]
  /\ calls = [ i \in 1..Len(expanded_urls) |-> << >> ]
  /\ future = [ i \in 1..Len(expanded_urls) |-> << >> ]
  /\ completed_count = 0
  /\ successful_results = << >>
  /\ failed_results = << >>
  /\ events = << >>
  /\ pending = {}
  /\ files \in SUBSET Urls
  /\ completed_videos = << >>
  /\ active_workers = [ w \in {} |-> 0 ]
  /\ active_steps = [ s \in {} |-> 0 ]
  /\ steps = << >>
  /\ now = 0
  /\ client = IdleClient
  /\ clip = IdleClip
  /\ timer = IdleTimer
  /\ session = IdleSession
  /\ expansion = IdleExpansion
  /\ quiz = IdleQuiz
  /\ config = IdleConfig
  /\ tracker = IdleTracker

RunNext ==
  \/ StartBatch
  \/ \E t \in PoolThreads : Dispatch(t)
  \/ \E i \in Items : DownloadOk(i)
  \/ \E i \in Items : DownloadFailed(i)
  \/ \E i \in Items : DownloadRaised(i)
  \/ \E i \in Items : Metadata(i)
  \/ \E i \in Items : AnalysisOk(i)
  \/ \E i \in Items : AnalysisFailed(i)
  \/ \E i \in Items : ClipOk(i)
  \/ \E i \in Items : ClipFailed(i)
  \/ \E i \in Items : ClipRaised(i)
  \/ \E i \in Items : Cleanup(i)
  \/ \E i \in Items : Collect(i)
  \/ EmitCompletion
  \/ Tick

SpecRun == RunInit /\ [][RunNext]_vars

(* ------------------ the PerformanceLogger on its own ------------------- *)
\* Workers call start_step / end_step with step names and a label of
\* process_single_url.  client.held[c] are the ids start_step returned to
\* worker c and it has not passed to end_step yet, client.calls[c] counts its
\* calls, client.last is the latest call of any worker: its id, the start_step
\* call the id came from, the value returned, and whether the id was a key of
\* the active map when the call was made.
Clients == 1..NumClients
LogStepNames == { "Audio Analysis", "Clip Generation" }
LogTitle == << "stem", 1 >>
LogStepType(step_name) ==
  IF step_name = "Clip Generation" THEN "clip_generation" ELSE "metadata_extraction"

NoCall == [ op |-> "none", id |-> NoStep, call |-> << 0, 0 >>, ret |-> NoTime,
            known |-> FALSE ]

batchIdleVars == << settingsVars, schedVars, poolVars, item, calls, pending, files,
                    trackerVars, clip, timer, session, expansion, quiz, config, tracker >>

\* step_id = start_step(name, type, title)
LogStartStep(c, step_name) ==
  /\ client.calls[c] < MaxCalls
  /\ LET call == << c, client.calls[c] + 1 >>
         id == StepId(step_name, LogTitle)
     IN
     /\ active_steps' = start_step(active_steps, step_name, LogStepType(step_name),
                                   LogTitle, call)
     /\ client' = [ calls |-> [client.calls EXCEPT ![c] = @ + 1],
                    held |-> [client.held EXCEPT ![c] = @ \cup { [ id |-> id, call |-> call ] }],
                    last |-> [ op |-> "start", id |-> id, call |-> call, ret |-> NoTime,
                               known |-> id \in DOMAIN active_steps ] ]
  /\ UNCHANGED << batchIdleVars, steps, now >>

\* end_step(step_id, success, error) with an id start_step returned to the client
LogEndStep(c, h, success) ==
  /\ client.calls[c] < MaxCalls
  /\ h \in client.held[c]
  /\ active_steps' = end_step_active(active_steps, h.id)
  /\ steps' = end_step_steps(active_steps, steps, h.id, success,
                             IF success THEN NoError ELSE ErrorText("", "error"))
  /\ client' = [ calls |-> [client.calls EXCEPT ![c] = @ + 1],
                 held |-> [client.held EXCEPT ![c] = @ \ { h }],
                 last |-> [ op |-> "end", id |-> h.id, call |-> h.call,
                            ret |-> end_step_return(active_steps, h.id),
                            known |-> h.id \in DOMAIN active_steps ] ]
  /\ UNCHANGED << batchIdleVars, now >>

\* the ids a client may make up: from the names, the label and the clock
\* values of the run
LogStepIds == { << n, LogTitle, ms >> : n \in LogStepNames, ms \in 0..MaxTime }

\* end_step(step_id) with an id no worker holds: never returned by start_step,
\* or already passed to end_step
LogEndUnknown(c, id) ==
  /\ client.calls[c] < MaxCalls
  /\ \A d \in Clients : \A h \in client.held[d] : h.id # id
  /\ active_steps' = end_step_active(active_steps, id)
  /\ steps' = end_step_steps(active_steps, steps, id, TRUE, NoError)
  /\ client' = [ calls |-> [client.calls EXCEPT ![c] = @ + 1],
                 held |-> client.held,
                 last |-> [ op |-> "end", id |-> id, call |-> << 0, 0 >>,
                            ret |-> end_step_return(active_steps, id),
                            known |-> id \in DOMAIN active_steps ] ]
  /\ UNCHANGED << batchIdleVars, now >>

LogTick ==
  /\ now < MaxTime
  /\ now' = now + 1
  /\ UNCHANGED << batchIdleVars, loggerVars, client >>

\* PerformanceLogger.__init__, no batch running
LogInit ==
  /\ user_settings = GetUserSettings(DefaultSettings)
  /\ MAX_WORKERS = 3
  /\ expanded_urls = << >>
  /\ schedPc = "off"
  /\ queue = << >>
  /\ thread = [ t \in 1..5 |-> 0 ]
  /\ item = << >>
  /\ calls = << >>
  /\ future = << >>
  /\ completed_count = 0
  /\ successful_results = << >>
  /\ failed_results = << >>
  /\ events = << >>
  /\ pending = {}
  /\ files = {}
  /\ completed_videos = << >>
  /\ active_workers = [ w \in {} |-> 0 ]
  /\ active_steps = [ s \in {} |-> 0 ]
  /\ steps = << >>
  /\ now = 0
  /\ client = [ calls |-> [ c \in Clients |-> 0 ], held |-> [ c \in Clients |-> {} ],
                last |-> NoCall ]
  /\ clip = IdleClip
  /\ timer = IdleTimer
  /\ session = IdleSession
  /\ expansion = IdleExpansion
  /\ quiz = IdleQuiz
  /\ config = IdleConfig
  /\ tracker = IdleTracker

LogNext ==
  \/ \E c \in Clients, n \in LogStepNames : LogStartStep(c, n)
  \/ \E c \in Clients : \E h \in client.held[c], ok \in BOOLEAN : LogEndStep(c, h, ok)
  \/ \E c \in Clients, id \in LogStepIds : LogEndUnknown(c, id)
  \/ LogTick

SpecLog == LogInit /\ [][LogNext]_vars


(* -------------- the clip window of one pipeline run -------------------- *)
\* Steps 3, 4 and 6 of process_single_url for one downloaded file, over a wide
\* range of audio lengths and settings: clip.len_ms is len(audio), clip.window
\* the range create_clip slices, clip.song_data the record of step 6.
ClipLengths == { 1000 * sec + ms : sec \in 1..MaxClipSeconds, ms \in { 0, 999 } }
ClipRawSettings ==
  [ clip_duration : { 5, 10, 15 }, clip_start_offset : { 0, 20, 30 },
    cleanup_full_downloads : { TRUE }, max_workers : { 3 } ]

NoWindow == [ start_time |-> NoTime, duration |-> NoTime ]

clipIdleVars == << settingsVars, schedVars, poolVars, item, calls, pending, files,
                   trackerVars, loggerVars, now, client, timer, session, expansion,
                   quiz, config, tracker >>

ClipInit ==
  /\ \E raw \in ClipRawSettings :
       /\ user_settings = GetUserSettings(raw)
       /\ MAX_WORKERS = GetUserSettings(raw).max_workers
  /\ \E len_ms \in ClipLengths :
       clip = [ pc |-> "analysis", len_ms |-> len_ms, duration_seconds |-> NoTime,
                clip_start |-> NoTime, window |-> NoWindow, song_data |-> NoSongData ]
  /\ expanded_urls = << 1 >>
  /\ schedPc = "off"
  /\ queue = << >>
  /\ thread = [ t \in 1..5 |-> 0 ]
  /\ item = << >>
  /\ calls = << >>
  /\ future = << >>
  /\ completed_count = 0
  /\ successful_results = << >>
  /\ failed_results = << >>
  /\ events = << >>
  /\ pending = {}
  /\ files = { 1 }
  /\ completed_videos = << >>
  /\ active_workers = [ w \in {} |-> 0 ]
  /\ active_steps = [ s \in {} |-> 0 ]
  /\ steps = << >>
  /\ now = 0
  /\ client = IdleClient
  /\ timer = IdleTimer
  /\ session = IdleSession
  /\ expansion = IdleExpansion
  /\ quiz = IdleQuiz
  /\ config = IdleConfig
  /\ tracker = IdleTracker

\* lines 204-205: duration_seconds = len(audio) // 1000
ClipAnalyze ==
  /\ clip.pc = "analysis"
  /\ clip' = [clip EXCEPT !.pc = "clip", !.duration_seconds = clip.len_ms \div 1000]
  /\ UNCHANGED clipIdleVars

\* lines 232-233: clip_start, then create_clip(audio_path, clip_start, clip_duration)
ClipGenerate ==
  /\ clip.pc = "clip"
  /\ LET clip_start == ClipStart(user_settings, clip.duration_seconds) IN
       clip' = [clip EXCEPT !.pc = "data", !.clip_start = clip_start,
                  !.window = CreateClipWindow(clip.len_ms, clip_start,
                                              user_settings.clip_duration)]
  /\ UNCHANGED clipIdleVars

\* lines 277-285: song_data
ClipRecord ==
  /\ clip.pc = "data"
  /\ clip' = [clip EXCEPT !.pc = "done",
                !.song_data = SongData(<< "stem", 1 >>, NoFile, 1, clip.duration_seconds,
                                       clip.clip_start, user_settings)]
  /\ UNCHANGED clipIdleVars

ClipNext == ClipAnalyze \/ ClipGenerate \/ ClipRecord

SpecClip == ClipInit /\ [][ClipNext]_vars


(* ---------------- the step timer, called by several workers ------------ *)
\* Workers wrap a unit of work in `with logger.step_timer(name, type, title):`.
\* timer[c].pc is where worker c stands: "idle" outside the block, "body" in
\* the wrapped work, "exited" once the block has been left; timer[c].exc is
\* what the work raised (NoError when it completed), timer[c].reraised what
\* left the block towards the caller, timer[c].call names the start_step call.
MaxTimerCalls == 2

\* no batch is running: the state of create_clips.py at import
NoBatchRun ==
  /\ user_settings = GetUserSettings(DefaultSettings)
  /\ MAX_WORKERS = 3
  /\ expanded_urls = << >>
  /\ schedPc = "off"
  /\ queue = << >>
  /\ thread = [ t \in 1..5 |-> 0 ]
  /\ item = << >>
  /\ calls = << >>
  /\ future = << >>
  /\ completed_count = 0
  /\ successful_results = << >>
  /\ failed_results = << >>
  /\ events = << >>
  /\ pending = {}
  /\ files = {}
  /\ completed_videos = << >>
  /\ active_workers = [ w \in {} |-> 0 ]

batchVars == << settingsVars, schedVars, poolVars, item, calls, pending, files, trackerVars >>
timerIdleVars == << batchVars, client, clip, session, expansion, quiz, config, tracker >>

\* what the wrapped work may do: complete, or raise an Exception with a text
WorkOutcomes == { NoError } \cup { ErrorText("", e) : e \in ExceptionTexts }

TimerInit ==
  /\ NoBatchRun
  /\ active_steps = [ s \in {} |-> 0 ]
  /\ steps = << >>
  /\ now = 0
  /\ client = IdleClient
  /\ clip = IdleClip
  /\ timer = [ c \in Clients |->
                 [ pc |-> "idle", calls |-> 0, id |-> NoStep, call |-> << 0, 0 >>,
                   exc |-> NoError, reraised |-> NoError ] ]
  /\ session = IdleSession
  /\ expansion = IdleExpansion
  /\ quiz = IdleQuiz
  /\ config = IdleConfig
  /\ tracker = IdleTracker

\* lines 108-110: step_id = self.start_step(...); success = False; yield
TimerEnter(c, step_name) ==
  /\ timer[c].pc \in { "idle", "exited" }
  /\ timer[c].calls < MaxTimerCalls
  /\ LET call == << c, timer[c].calls + 1 >> IN
       /\ active_steps' = start_step(active_steps, step_name, LogStepType(step_name),
                                     LogTitle, call)
       /\ timer' = [timer EXCEPT ![c] =
                      [ pc |-> "body", calls |-> timer[c].calls + 1,
                        id |-> StepId(step_name, LogTitle), call |-> call,
                        exc |-> NoError, reraised |-> NoError ]]
  /\ UNCHANGED << timerIdleVars, steps, now >>

\* lines 112-119: the work is over; success = True, or error_message = str(e)
\* and raise; finally self.end_step(step_id, success, error_message)
TimerExit(c, outcome) ==
  /\ timer[c].pc = "body"
  /\ LET success == outcome = NoError
         error_message == outcome
     IN
     /\ active_steps' = end_step_active(active_steps, timer[c].id)
     /\ steps' = end_step_steps(active_steps, steps, timer[c].id, success, error_message)
  /\ timer' = [timer EXCEPT ![c].pc = "exited", ![c].exc = outcome,
                            ![c].reraised = outcome]
  /\ UNCHANGED << timerIdleVars, now >>

TimerTick ==
  /\ now < MaxTime
  /\ now' = now + 1
  /\ UNCHANGED << timerIdleVars, loggerVars, timer >>

TimerNext ==
  \/ \E c \in Clients, n \in LogStepNames : TimerEnter(c, n)
  \/ \E c \in Clients, o \in WorkOutcomes : TimerExit(c, o)
  \/ TimerTick

SpecTimer == TimerInit /\ [][TimerNext]_vars


(* ----------------------- the session summary --------------------------- *)
\* _generate_summary over session.steps.  Durations are whole seconds here; an
\* average is kept as the pair << total_duration, count >> it is the quotient
\* of, and a rate as << failed, total >>.
MaxSummarySteps == 5

StepTypes == { "download", "clip_generation", "metadata_extraction",
               "database_save", "file_cleanup", "other" }

\* slow_thresholds.get(step_type, 5.0)
SlowThreshold(step_type) ==
  CASE step_type = "download" -> 30
    [] step_type = "clip_generation" -> 5
    [] step_type = "metadata_extraction" -> 1
    [] step_type = "database_save" -> 2
    [] step_type = "file_cleanup" -> 1
    [] OTHER -> 5

\* a variant of QuotientAbove that is true at the threshold too
QuotientAtOrAbove(q, c) == q[1] >= c * q[2]

\* a / b > c for a quotient << a, b >> with b > 0
QuotientAbove(q, c) == q[1] > c * q[2]

RECURSIVE SumDurations(_)
SumDurations(sealed) ==
  IF sealed = << >> THEN 0
  ELSE (IF Head(sealed).duration = NoTime THEN 0 ELSE Head(sealed).duration)
       + SumDurations(Tail(sealed))

\* the keys of step_type_breakdown, in the order the loop inserts them
RECURSIVE BreakdownTypes(_)
BreakdownTypes(sealed) ==
  IF sealed = << >> THEN << >>
  ELSE LET before == BreakdownTypes(SubSeq(sealed, 1, Len(sealed) - 1))
           t == sealed[Len(sealed)].step_type
       IN IF \E k \in 1..Len(before) : before[k] = t THEN before ELSE Append(before, t)

\* step_type_breakdown[step_type] after the two loops of lines 179-209
Breakdown(sealed, step_type) ==
  LET mine == SelectSeq(sealed, LAMBDA x : x.step_type = step_type)
      timed == { mine[k].duration : k \in 1..Len(mine) } \ { 0, NoTime }
  IN [ count |-> Len(mine),
       successful |-> Len(SelectSeq(mine, LAMBDA x : x.success)),
       failed |-> Len(SelectSeq(mine, LAMBDA x : ~x.success)),
       total_duration |-> SumDurations(mine),
       average_duration |-> << SumDurations(mine), Len(mine) >>,
       min_duration |-> IF timed = {} THEN 0
                        ELSE CHOOSE d \in timed : \A e \in timed : d <= e,
       max_duration |-> IF timed = {} THEN 0
                        ELSE CHOOSE d \in timed : \A e \in timed : d >= e ]

\* lines 226-235: one slow_operation issue per type over its threshold
RECURSIVE SlowOperations(_, _)
SlowOperations(sealed, types) ==
  IF types = << >> THEN << >>
  ELSE LET t == Head(types)
           b == Breakdown(sealed, t)
       IN (IF QuotientAbove(b.average_duration, SlowThreshold(t))
           THEN << [ type |-> "slow_operation", step_type |-> t,
                     average_duration |-> b.average_duration,
                     threshold |-> SlowThreshold(t), count |-> b.count ] >>
           ELSE << >>)
          \o SlowOperations(sealed, Tail(types))

\* a variant of HighFailureRate that reports a rate of exactly 0.2 too
HighFailureRateAtOrAbove(sealed) ==
  LET failed_steps == Len(SelectSeq(sealed, LAMBDA x : ~x.success)) IN
  IF sealed # << >> /\ 5 * failed_steps >= Len(sealed)
  THEN << [ type |-> "high_failure_rate",
            failure_rate |-> << failed_steps, Len(sealed) >>,
            failed_steps |-> failed_steps, total_steps |-> Len(sealed) ] >>
  ELSE << >>

\* lines 238-245: failure_rate > 0.2
HighFailureRate(sealed) ==
  LET failed_steps == Len(SelectSeq(sealed, LAMBDA x : ~x.success)) IN
  IF 5 * failed_steps > Len(sealed)
  THEN << [ type |-> "high_failure_rate",
            failure_rate |-> << failed_steps, Len(sealed) >>,
            failed_steps |-> failed_steps, total_steps |-> Len(sealed) ] >>
  ELSE << >>

\* _generate_summary, lines 160-257
generate_summary(sealed) ==
  IF sealed = << >>
  THEN [ total_steps |-> 0, successful_steps |-> 0, failed_steps |-> 0,
         average_step_time |-> << 0, 1 >>, total_processing_time |-> 0,
         step_type_breakdown |-> << >> ]
  ELSE LET types == BreakdownTypes(sealed)
           successful_steps == Len(SelectSeq(sealed, LAMBDA x : x.success))
           failed_steps == Len(SelectSeq(sealed, LAMBDA x : ~x.success))
       IN [ total_steps |-> Len(sealed),
            successful_steps |-> successful_steps,
            failed_steps |-> failed_steps,
            success_rate |-> << successful_steps, Len(sealed) >>,
            failure_rate |-> << failed_steps, Len(sealed) >>,
            average_step_time |-> << SumDurations(sealed), Len(sealed) >>,
            total_processing_time |-> SumDurations(sealed),
            step_type_breakdown |->
              [ k \in 1..Len(types) |-> << types[k], Breakdown(sealed, types[k]) >> ],
            performance_issues |-> SlowOperations(sealed, types) \o HighFailureRate(sealed) ]

\* a step as end_step leaves it in session.steps: its type, its duration in
\* seconds, whether it succeeded
SealedStep(step_type, duration, success) ==
  [ step_name |-> step_type, step_type |-> step_type, song_title |-> LogTitle,
    start_time |-> 0, end_time |-> duration, duration |-> duration,
    success |-> success,
    error_message |-> IF success THEN NoError ELSE ErrorText("", "error"),
    call |-> << 0, 0 >> ]

\* the steps a session may hold: every type, with a duration at its
\* threshold or one second over, succeeded or failed
SealedSteps ==
  { SealedStep(t, SlowThreshold(t) + over, ok) :
      t \in StepTypes, over \in { 0, 1 }, ok \in BOOLEAN }

NoSummary == [ total_steps |-> NoTime ]


MaxSessionSteps == 2
MaxEndCalls == 3

\* session.pc is "open" from __init__ on; session.installed says whether the
\* module global _performance_logger holds the logger; session.events are
\* the session_performance events printed; session.calls counts the
\* end_session / finalize_performance_logging calls, session.last is what the
\* latest of them returned.
OpenSession ==
  [ pc |-> "open", installed |-> TRUE, end_time |-> NoTime, total_duration |-> NoTime,
    summary |-> NoSummary, events |-> << >>, calls |-> 0, last |-> "none" ]

sessionIdleVars == << batchVars, active_steps, client, clip, timer, expansion, quiz, config, tracker >>

\* end_session, lines 137-158: the session after the call
end_session(sess, sealed) ==
  [ sess EXCEPT !.end_time = now, !.total_duration = now,
                !.summary = generate_summary(sealed),
                !.events = Append(@, [ type |-> "session_performance",
                                       status |-> "completed",
                                       total_duration |-> now,
                                       summary |-> generate_summary(sealed) ]),
                !.calls = @ + 1, !.last = "session" ]

\* logger.end_session() on the PerformanceLogger object
EndSession ==
  /\ session.pc = "open"
  /\ session' = end_session(session, steps)
  /\ UNCHANGED << sessionIdleVars, steps, now >>

\* finalize_performance_logging(), lines 297-304
Finalize ==
  /\ session.pc = "open"
  /\ session' = IF session.installed
                THEN [ end_session(session, steps) EXCEPT !.installed = FALSE ]
                ELSE [ session EXCEPT !.calls = @ + 1, !.last = "None" ]
  /\ UNCHANGED << sessionIdleVars, steps, now >>

\* a step of the session is sealed by end_step
SessionSeal(x) ==
  /\ session.pc = "open"
  /\ steps' = Append(steps, x)
  /\ UNCHANGED << sessionIdleVars, session, now >>

SessionTick ==
  /\ now < MaxTime
  /\ now' = now + 1
  /\ UNCHANGED << sessionIdleVars, steps, session >>

SessionInit ==
  /\ NoBatchRun
  /\ active_steps = [ s \in {} |-> 0 ]
  /\ steps \in { << >> } \cup { << x >> : x \in SealedSteps }
  /\ now = 0
  /\ client = IdleClient
  /\ clip = IdleClip
  /\ timer = IdleTimer
  /\ session = OpenSession
  /\ expansion = IdleExpansion
  /\ quiz = IdleQuiz
  /\ config = IdleConfig
  /\ tracker = IdleTracker

SessionNext ==
  \/ session.calls < MaxEndCalls /\ EndSession
  \/ session.calls < MaxEndCalls /\ Finalize
  \/ \E x \in SealedSteps : Len(steps) < MaxSessionSteps /\ SessionSeal(x)
  \/ SessionTick

SpecSession == SessionInit /\ [][SessionNext]_vars

\* The summary of one session over many steps.  _generate_summary reads
\* session.steps through counts and sums, so the steps are sealed in one fixed
\* order of type, duration and outcome.
TypeRank(step_type) ==
  CASE step_type = "download" -> 0
    [] step_type = "clip_generation" -> 1
    [] step_type = "metadata_extraction" -> 2
    [] step_type = "database_save" -> 3
    [] step_type = "file_cleanup" -> 4
    [] OTHER -> 5

StepRank(x) ==
  4 * TypeRank(x.step_type) + 2 * (x.duration - SlowThreshold(x.step_type))
    + (IF x.success THEN 1 ELSE 0)

SummaryInit ==
  /\ NoBatchRun
  /\ active_steps = [ s \in {} |-> 0 ]
  /\ steps = << >>
  /\ now = 0
  /\ client = IdleClient
  /\ clip = IdleClip
  /\ timer = IdleTimer
  /\ session = OpenSession
  /\ expansion = IdleExpansion
  /\ quiz = IdleQuiz
  /\ config = IdleConfig
  /\ tracker = IdleTracker

SummaryNext ==
  \/ \E x \in SealedSteps :
       /\ session.calls = 0
       /\ Len(steps) < MaxSummarySteps
       /\ steps # << >> => StepRank(steps[Len(steps)]) <= StepRank(x)
       /\ SessionSeal(x)
  \/ session.calls = 0 /\ EndSession

SpecSummary == SummaryInit /\ [][SummaryNext]_vars


(* ------------- the ProgressTracker, called by several workers ---------- *)
\* Every method of ProgressTracker runs its body inside `with self.lock:`.
\* tracker.lock is the thread that holds the lock (0: free); tracker.caller[c]
\* is where worker c stands: "out" of the tracker or "in" a method body, with
\* the method and its arguments; tracker.added are the titles of the
\* add_completed_video calls that have returned, tracker.snapshot the value
\* the latest get_progress_data call returned.
MaxTrackerCalls == 2

trackerIdleVars == << settingsVars, schedVars, poolVars, item, calls, pending, files,
                      loggerVars, now, client, clip, timer, session, expansion, quiz, config >>

NoSnapshot == [ completed_videos |-> << >>, active_workers |-> {} ]

\* the calls a worker makes: the title names the worker and its call
TrackerCalls(c, k) ==
  { [ op |-> "add_completed_video", title |-> InitialTitle(MaxTrackerCalls * (c - 1) + k),
      status |-> st[1], error |-> st[2] ] :
      st \in { << "success", NoError >>, << "failed", ErrorText("download failed", "") >> } }
  \cup { [ op |-> "set_worker_status", title |-> InitialTitle(c),
           status |-> "downloading", error |-> NoError ],
         [ op |-> "remove_worker", title |-> InitialTitle(c),
           status |-> "", error |-> NoError ],
         [ op |-> "get_progress_data", title |-> InitialTitle(c),
           status |-> "", error |-> NoError ] }

NoTrackerCall == [ op |-> "none", title |-> NoTitle, status |-> "", error |-> NoError ]

TrackerInit ==
  /\ NoBatchRun
  /\ active_steps = [ s \in {} |-> 0 ]
  /\ steps = << >>
  /\ now = 0
  /\ client = IdleClient
  /\ clip = IdleClip
  /\ timer = IdleTimer
  /\ session = IdleSession
  /\ expansion = IdleExpansion
  /\ quiz = IdleQuiz
  /\ config = IdleConfig
  /\ tracker = [ lock |-> 0,
                 caller |-> [ c \in Clients |->
                                [ pc |-> "out", calls |-> 0, call |-> NoTrackerCall ] ],
                 added |-> {},
                 snapshot |-> NoSnapshot ]

\* `with self.lock:` is entered: the lock was free
TrackerEnter(c, call) ==
  /\ tracker.caller[c].pc = "out"
  /\ tracker.caller[c].calls < MaxTrackerCalls
  /\ tracker.lock = 0
  /\ tracker' = [tracker EXCEPT !.lock = c,
                                !.caller[c] = [ pc |-> "in", calls |-> @.calls + 1,
                                                call |-> call ]]
  /\ UNCHANGED << trackerIdleVars, trackerVars >>

\* the body of the method runs and the `with` block is left
TrackerLeave(c) ==
  /\ tracker.caller[c].pc = "in"
  /\ tracker.lock = c
  /\ LET call == tracker.caller[c].call IN
       /\ completed_videos' =
            IF call.op = "add_completed_video"
            THEN add_completed_video(completed_videos, call.title, call.status, call.error)
            ELSE completed_videos
       /\ active_workers' =
            CASE call.op = "set_worker_status" ->
                   set_worker_status(active_workers, << c, c >>, call.title, call.status)
              [] call.op = "remove_worker" -> remove_worker(active_workers, << c, c >>)
              [] OTHER -> active_workers
       /\ tracker' = [tracker EXCEPT
            !.lock = 0,
            !.caller[c].pc = "out",
            !.added = IF call.op = "add_completed_video" THEN @ \cup { call.title } ELSE @,
            !.snapshot = IF call.op = "get_progress_data" THEN get_progress_data ELSE @]
  /\ UNCHANGED trackerIdleVars

TrackerNext ==
  \/ \E c \in Clients :
       \E call \in TrackerCalls(c, tracker.caller[c].calls + 1) : TrackerEnter(c, call)
  \/ \E c \in Clients : TrackerLeave(c)

SpecTracker == TrackerInit /\ [][TrackerNext]_vars


(* ------------------------ playlist expansion --------------------------- *)
\* Lines 584-613 of process_urls_parallel with is_playlist_url and
\* extract_playlist_urls.  A string is the sequence of its pieces: single
\* characters for the video ids, whole fixed fragments for the rest of a url.
\* expansion.original_urls is the input, expansion.i the index of the link the
\* loop is at, expansion.expanded_urls the list built so far, expansion.runs
\* the outcome of each yt-dlp call made, by the index of its link.
MaxLinks == 2
MaxPlaylistLines == 2

Repeat(ch, n) == [ k \in 1..n |-> ch ]

\* str.strip()
RECURSIVE Strip(_)
Strip(str) ==
  IF str = << >> THEN str
  ELSE IF Head(str) = " " THEN Strip(Tail(str))
  ELSE IF str[Len(str)] = " " THEN Strip(SubSeq(str, 1, Len(str) - 1))
  ELSE str

\* str.isalnum(): not empty and every character a letter or a digit
IsAlnum(str) == str # << >> /\ \A k \in 1..Len(str) : str[k] \in { "a", "b", "7" }

\* a variant of IsValidVideoId that accepts any non-empty id
IsValidVideoIdAnyShape(vid) == vid # << >>

\* vid and len(vid) == 11 and vid.isalnum()
IsValidVideoId(vid) == vid # << >> /\ Len(vid) = 11 /\ IsAlnum(vid)

WatchPrefix == "https://www.youtube.com/watch?v="
PlaylistMarker == "playlist?list="

\* 'playlist?list=' in url
is_playlist_url(url) == \E k \in 1..Len(url) : url[k] = PlaylistMarker

\* the lines yt-dlp may print: two well-formed ids (one padded with blanks),
\* ids of 10 and of 12 characters, an id with a dash, a blank line
OutputLines ==
  { Repeat("a", 10) \o << "7" >>,
    << " " >> \o Repeat("b", 11) \o << " " >>,
    Repeat("a", 10),
    Repeat("b", 12),
    Repeat("a", 5) \o << "-" >> \o Repeat("a", 5),
    << " " >> }

\* what a yt-dlp call may come to: its output lines, a non-zero exit status
\* (CalledProcessError), or no process at all (any other exception)
PlaylistOutputs == UNION { [ 1..n -> OutputLines ] : n \in 0..MaxPlaylistLines }
Failed == << << "CalledProcessError" >> >>

\* extract_playlist_urls, lines 104-146, given what yt-dlp came to
extract_playlist_urls(out) ==
  IF out = Failed THEN << >>
  ELSE LET stripped == [ k \in 1..Len(out) |-> Strip(out[k]) ]
           video_ids == SelectSeq(stripped, LAMBDA line : line # << >>)
           valid_ids == SelectSeq(video_ids, IsValidVideoId)
       IN [ k \in 1..Len(valid_ids) |-> << WatchPrefix >> \o valid_ids[k] ]

\* the links of an input file: two videos, two playlists, and a video link
\* that carries the playlist marker in its query
InputLinks ==
  { << WatchPrefix >> \o Repeat("a", 11),
    << WatchPrefix, "b", "-" >> \o Repeat("7", 9),
    << "https://www.youtube.com/", PlaylistMarker, "P", "L", "a" >>,
    << "https://www.youtube.com/", PlaylistMarker, "P", "L", "b" >>,
    << WatchPrefix >> \o Repeat("b", 11) \o << "&", PlaylistMarker, "P", "L", "a" >> }

expansionIdleVars == << batchVars, loggerVars, now, client, clip, timer, session, quiz, config,
                        tracker >>

ExpandInit ==
  /\ NoBatchRun
  /\ active_steps = [ s \in {} |-> 0 ]
  /\ steps = << >>
  /\ now = 0
  /\ client = IdleClient
  /\ clip = IdleClip
  /\ timer = IdleTimer
  /\ session = IdleSession
  /\ \E original_urls \in UNION { [ 1..n -> InputLinks ] : n \in 0..MaxLinks } :
       expansion = [ pc |-> "expanding", original_urls |-> original_urls, i |-> 1,
                     expanded_urls |-> << >>,
                     runs |-> [ k \in 1..Len(original_urls) |-> << >> ] ]
  /\ quiz = IdleQuiz
  /\ config = IdleConfig
  /\ tracker = IdleTracker

\* lines 612-613: expanded_urls.append(url)
ExpandPassThrough ==
  /\ expansion.pc = "expanding"
  /\ expansion.i <= Len(expansion.original_urls)
  /\ ~is_playlist_url(expansion.original_urls[expansion.i])
  /\ expansion' = [expansion EXCEPT
       !.expanded_urls = Append(@, expansion.original_urls[expansion.i]),
       !.i = @ + 1]
  /\ UNCHANGED expansionIdleVars

\* lines 599-611: expanded_urls.extend(extract_playlist_urls(url))
ExpandPlaylist(out) ==
  /\ expansion.pc = "expanding"
  /\ expansion.i <= Len(expansion.original_urls)
  /\ is_playlist_url(expansion.original_urls[expansion.i])
  /\ expansion' = [expansion EXCEPT
       !.expanded_urls = @ \o extract_playlist_urls(out),
       !.runs[expansion.i] = << out >>,
       !.i = @ + 1]
  /\ UNCHANGED expansionIdleVars

\* subprocess.run raised something else than CalledProcessError (yt-dlp cannot
\* be started): the exception leaves extract_playlist_urls and
\* process_urls_parallel
ExpandRaised ==
  /\ expansion.pc = "expanding"
  /\ expansion.i <= Len(expansion.original_urls)
  /\ is_playlist_url(expansion.original_urls[expansion.i])
  /\ expansion' = [expansion EXCEPT !.pc = "aborted"]
  /\ UNCHANGED expansionIdleVars

\* line 615: the loop is over, total_songs = len(expanded_urls)
ExpandDone ==
  /\ expansion.pc = "expanding"
  /\ expansion.i > Len(expansion.original_urls)
  /\ expansion' = [expansion EXCEPT !.pc = "done"]
  /\ UNCHANGED expansionIdleVars

ExpandNext ==
  \/ ExpandPassThrough
  \/ \E out \in PlaylistOutputs \cup { Failed } : ExpandPlaylist(out)
  \/ ExpandRaised
  \/ ExpandDone

SpecExpand == ExpandInit /\ [][ExpandNext]_vars


(* ------------------- the collection loop on its own -------------------- *)
\* process_urls_parallel from the submission on, over batches large enough
\* for the fifth completion not to be the last: a pipeline run is taken as a
\* whole, by the ProcessingResult it hands to its future.
MaxCollectItems == 6

collectIdleVars == << settingsVars, schedPc, completed_count, successful_results,
                      failed_results, events, queue, thread, item, calls, pending, files,
                      trackerVars, loggerVars, now, otherSpecVars >>

CollectInit ==
  /\ user_settings = GetUserSettings(DefaultSettings)
  /\ MAX_WORKERS = GetUserSettings(DefaultSettings).max_workers
  /\ \E n \in 0..MaxCollectItems : expanded_urls = [ k \in 1..n |-> 1 ]
  /\ schedPc = "collect"
  /\ queue = << >>
  /\ thread = [ t \in 1..5 |-> 0 ]
  /\ item = [ i \in 1..Len(expanded_urls) |-> NewItem(i) ]
  /\ calls = [ i \in 1..Len(expanded_urls) |-> << >> ]
  /\ future = [ i \in 1..Len(expanded_urls) |-> << >> ]
  /\ completed_count = 0
  /\ successful_results = << >>
  /\ failed_results = << >>
  /\ events = << >>
  /\ pending = 1..Len(expanded_urls)
  /\ files = {}
  /\ completed_videos = << >>
  /\ active_workers = [ w \in {} |-> 0 ]
  /\ active_steps = [ s \in {} |-> 0 ]
  /\ steps = << >>
  /\ now = 0
  /\ client = IdleClient
  /\ clip = IdleClip
  /\ timer = IdleTimer
  /\ session = IdleSession
  /\ expansion = IdleExpansion
  /\ quiz = IdleQuiz
  /\ config = IdleConfig
  /\ tracker = IdleTracker

\* process_single_url(url, i, ...) returns: a success (lines 293-298) or a
\* failed download (lines 168-172); as_completed yields the futures one by
\* one, so at most one resolved future waits for the loop
RunReturns(i, ok) ==
  /\ schedPc = "collect"
  /\ future[i] = << >>
  /\ \A j \in pending : future[j] = << >>
  /\ future' = [future EXCEPT ![i] =
       << IF ok
          THEN ProcessingResult(TRUE, expanded_urls[i],
                 SongData(InitialTitle(i), NoFile, i, 50, 30, user_settings), NoError, i)
          ELSE ProcessingResult(FALSE, expanded_urls[i], NoSongData,
                                ErrorText("download failed", ""), i) >>]
  /\ UNCHANGED collectIdleVars

CollectNext ==
  \/ \E i \in Items, ok \in BOOLEAN : RunReturns(i, ok)
  \/ \E i \in Items : Collect(i)
  \/ EmitCompletion

SpecCollect == CollectInit /\ [][CollectNext]_vars


(* ----------------------- the options of a question --------------------- *)
\* generate_wrong_options(correct_title, all_songs, option_count) of
\* generate_quiz.py.  A song is taken by its title, a title is a pair of a
\* text and a number as elsewhere.  quiz.selected_wrong is the sample,
\* quiz.all_options the list returned.
MaxPoolTitles == 8

\* option_counts of create_quiz_game: easy, medium, hard
OptionCounts == { 4, 6, 8 }

fake_titles ==
  << << "Unknown Song A", 0 >>, << "Unknown Song B", 0 >>, << "Unknown Song C", 0 >>,
     << "Mystery Track", 0 >>, << "Hidden Gem", 0 >>, << "Secret Song", 0 >> >>

\* wrong_titles, lines 46-55: the other titles, with the six made-up titles
\* behind them when they are fewer than option_count - 1
wrong_titles(correct_title, all_songs, option_count) ==
  LET others == SelectSeq(all_songs, LAMBDA title : title # correct_title) IN
  IF Len(others) < option_count - 1 THEN others \o fake_titles ELSE others

\* the elements of seq at the indices of S, in the order of seq
RECURSIVE Pick(_, _)
Pick(seq, S) ==
  IF seq = << >> THEN << >>
  ELSE Pick(SubSeq(seq, 1, Len(seq) - 1), S)
       \o (IF Len(seq) \in S THEN << seq[Len(seq)] >> ELSE << >>)

quizIdleVars == << batchVars, loggerVars, now, client, clip, timer, session, expansion,
                   config, tracker >>

\* a catalogue of one song, of three songs or of MaxPoolTitles songs with
\* titles of their own, none of them a made-up title; the question is about
\* the first or the last of them
QuizInit ==
  /\ NoBatchRun
  /\ active_steps = [ s \in {} |-> 0 ]
  /\ steps = << >>
  /\ now = 0
  /\ client = IdleClient
  /\ clip = IdleClip
  /\ timer = IdleTimer
  /\ session = IdleSession
  /\ config = IdleConfig
  /\ expansion = IdleExpansion
  /\ \E m \in { 1, 3, MaxPoolTitles }, option_count \in OptionCounts :
       \E c \in { 1, m } :
         quiz = [ pc |-> "sample",
                  all_songs |-> [ k \in 1..m |-> << "title", k >> ],
                  correct_title |-> << "title", c >>,
                  option_count |-> option_count,
                  selected_wrong |-> << >>,
                  all_options |-> << >> ]
  /\ tracker = IdleTracker

\* line 58: random.sample(wrong_titles, min(option_count - 1, len(wrong_titles)))
\* draws that many different positions of wrong_titles; the order of the
\* sample is the order of the positions here, the shuffle of line 62 follows
QuizSample ==
  /\ quiz.pc = "sample"
  /\ LET wrong == wrong_titles(quiz.correct_title, quiz.all_songs, quiz.option_count) IN
       \E S \in SUBSET (1..Len(wrong)) :
         /\ Cardinality(S) = Min(quiz.option_count - 1, Len(wrong))
         /\ quiz' = [quiz EXCEPT !.pc = "shuffle", !.selected_wrong = Pick(wrong, S)]
  /\ UNCHANGED quizIdleVars

\* lines 61-64: all_options = selected_wrong + [correct_title];
\* random.shuffle(all_options); return all_options
QuizShuffle ==
  /\ quiz.pc = "shuffle"
  /\ LET all_options == Append(quiz.selected_wrong, quiz.correct_title) IN
       \E p \in Permutations(1..Len(all_options)) :
         quiz' = [quiz EXCEPT !.pc = "done",
                    !.all_options = [ k \in 1..Len(all_options) |-> all_options[p[k]] ]]
  /\ UNCHANGED quizIdleVars

QuizNext ==
  \/ QuizSample
  \/ QuizShuffle

SpecQuiz == QuizInit /\ [][QuizNext]_vars


(* --------------------------- user_settings.json ------------------------ *)
\* get_user_settings over the settings file.  config.file is the file,
\* config.settings the dict returned, config.MAX_WORKERS the module global
\* main overwrites with it.
MaxSettingsEntries == 2

\* key/value entries a settings file can hold
SettingsEntries ==
  { << "clip_duration", d >> : d \in { 0 - 1, 0, 5, 10, 11, 30 } }
  \cup { << "max_workers", w >> : w \in { 0 - 1, 0, 1, 3, 5, 6 } }
  \cup { << "clip_start_offset", 0 >>, << "cleanup_full_downloads", FALSE >> }

\* dict.update(entries): the entries are stored one after the other
RECURSIVE update(_, _)
update(settings, entries) ==
  IF entries = << >> THEN settings
  ELSE update([settings EXCEPT ![entries[1][1]] = entries[1][2]], Tail(entries))

\* user_settings.json: absent, or present with the entries json.load yields.
\* fault is where the `try` of lines 554-559 raises: "open" (the file cannot
\* be opened), "parse" (json.load raises), "update" (the document is an array
\* whose leading elements are key/value pairs and whose next element is not:
\* settings.update stores the pairs and raises at that element), "none"
SettingsFiles ==
  { [ exists |-> FALSE, fault |-> "none", entries |-> << >> ] }
  \cup { [ exists |-> TRUE, fault |-> f, entries |-> << >> ] : f \in { "open", "parse" } }
  \cup { [ exists |-> TRUE, fault |-> f, entries |-> e ] :
           f \in { "none", "update" },
           e \in UNION { [ 1..n -> SettingsEntries ] : n \in 0..MaxSettingsEntries } }

\* lines 542-559: the defaults, overwritten by what the file gave before the
\* `except Exception` was reached, if it was
loaded_settings(file) ==
  IF file.exists /\ file.fault \in { "none", "update" }
  THEN update(DefaultSettings, file.entries)
  ELSE DefaultSettings

\* get_user_settings(): lines 542-573
get_user_settings(file) == GetUserSettings(loaded_settings(file))

configIdleVars == << batchVars, loggerVars, now, client, clip, timer, session, expansion,
                     quiz, tracker >>

ConfigInit ==
  /\ NoBatchRun
  /\ active_steps = [ s \in {} |-> 0 ]
  /\ steps = << >>
  /\ now = 0
  /\ client = IdleClient
  /\ clip = IdleClip
  /\ timer = IdleTimer
  /\ session = IdleSession
  /\ expansion = IdleExpansion
  /\ quiz = IdleQuiz
  /\ tracker = IdleTracker
  /\ \E file \in SettingsFiles :
       config = [ pc |-> "start", file |-> file, settings |-> DefaultSettings,
                  MAX_WORKERS |-> 3 ]

\* main, line 805: user_settings = get_user_settings()
ConfigLoad ==
  /\ config.pc = "start"
  /\ config' = [config EXCEPT !.pc = "loaded",
                              !.settings = get_user_settings(config.file)]
  /\ UNCHANGED configIdleVars

\* main, lines 806-812: MAX_WORKERS = user_settings['max_workers']
ConfigAdopt ==
  /\ config.pc = "loaded"
  /\ config' = [config EXCEPT !.pc = "adopted",
                              !.MAX_WORKERS = config.settings.max_workers]
  /\ UNCHANGED configIdleVars

ConfigNext ==
  \/ ConfigLoad
  \/ ConfigAdopt

SpecConfig == ConfigInit /\ [][ConfigNext]_vars


(* --------------------- main: the batch, then the summary ---------------- *)
\* main, lines 814-829: process_urls_parallel runs inside `try`, and its
\* `with ThreadPoolExecutor(...)` block (lines 636-693) leaves only after every
\* pool thread has returned; finalize_performance_logging runs in `finally`.
process_urls_parallel_returned == schedPc = "done"

\* main after init_performance_logger installed the logger (lines 791-797)
\* and get_user_settings returned (805-812): two pool threads, and a batch
\* that names one video up to NumItems times
MainSettings == [ DefaultSettings EXCEPT !.max_workers = 2 ]

MainUrlLists == { u \in ExpandedUrlLists : \A k \in 1..Len(u) : u[k] = 1 }

MainInit ==
  /\ user_settings = GetUserSettings(MainSettings)
  /\ MAX_WORKERS = GetUserSettings(MainSettings).max_workers
  /\ expanded_urls \in MainUrlLists
  /\ schedPc = "start"
  /\ queue = << >>
  /\ thread = [ t \in 1..5 |-> 0 ]
  /\ item = [ i \in 1..Len(expanded_urls) |-> NewItem(i) ]
  /\ calls = [ i \in 1..Len(expanded_urls) |-> << >> ]
  /\ future = [ i \in 1..Len(expanded_urls) |-> << >> ]
  /\ completed_count = 0
  /\ successful_results = << >>
  /\ failed_results = << >>
  /\ events = << >>
  /\ pending = {}
  /\ files = {}
  /\ completed_videos = << >>
  /\ active_workers = [ w \in {} |-> 0 ]
  /\ active_steps = [ s \in {} |-> 0 ]
  /\ steps = << >>
  /\ now = 0
  /\ client = IdleClient
  /\ clip = IdleClip
  /\ timer = IdleTimer
  /\ session = OpenSession
  /\ expansion = IdleExpansion
  /\ quiz = IdleQuiz
  /\ config = IdleConfig
  /\ tracker = IdleTracker

\* lines 817-825: `finally: finalize_performance_logging()`, once
MainFinalize ==
  /\ process_urls_parallel_returned
  /\ session.calls = 0
  /\ Finalize

MainNext ==
  \/ StartBatch
  \/ \E t \in PoolThreads : Dispatch(t)
  \/ \E i \in Items : DownloadOk(i)
  \/ \E i \in Items : DownloadFailed(i)
  \/ \E i \in Items : DownloadRaised(i)
  \/ \E i \in Items : Metadata(i)
  \/ \E i \in Items : AnalysisOk(i)
  \/ \E i \in Items : AnalysisFailed(i)
  \/ \E i \in Items : ClipOk(i)
  \/ \E i \in Items : ClipFailed(i)
  \/ \E i \in Items : Cleanup(i)
  \/ \E i \in Items : Collect(i)
  \/ EmitCompletion
  \/ Tick
  \/ MainFinalize

SpecMain == MainInit /\ [][MainNext]_vars

(* ------------- the two mutexes along process_single_url ---------------- *)
\* Several workers run process_single_url statement by statement.  Each
\* ProgressTracker method (create_clips.py 57-80) and each of start_step /
\* end_step (performance_logger.py 57-103) is `with self.lock:` around its
\* body: the lock is taken, the body mutates, the lock is given back.
\* tracker.lock and client.lock are the threads that hold ProgressTracker.lock
\* and PerformanceLogger.lock (0: free); client.worker[c].todo are the calls
\* worker c still has to make, the first of them the one it is in, .phase
\* where it stands in that call, .step_id the id its latest start_step
\* returned.
TrackerMethods == { "set_worker_status", "add_completed_video", "remove_worker" }
LoggerMethods == { "start_step_timing", "end_step_timing" }
ExternalFunctions ==
  { "download_audio", "extract_metadata", "from_mp3", "create_clip",
    "cleanup_full_download" }

\* the external calls whose failure ends the run: download_audio returns None
\* (line 164), AudioSegment.from_mp3 raises (207), create_clip returns None (235)
FailingFunctions == { "download_audio", "from_mp3", "create_clip" }

\* step_type of each start_step_timing call of process_single_url
RunStepType(step_name) ==
  CASE step_name = "Audio Download" -> "download"
    [] step_name = "Clip Generation" -> "clip_generation"
    [] step_name = "File Cleanup" -> "file_cleanup"
    [] OTHER -> "metadata_extraction"

\* lines 156-298 with cleanup_full_downloads on: the calls of a run in which
\* every stage succeeds
SuccessfulRun ==
  << SetWorkerStatus("downloading"), StartStep("Audio Download"),
     External("download_audio"), EndStep("Audio Download", TRUE),
     SetWorkerStatus("metadata"), StartStep("Metadata Extraction"),
     External("extract_metadata"), SetWorkerStatus("metadata"),
     EndStep("Metadata Extraction", TRUE),
     SetWorkerStatus("analysis"), StartStep("Audio Analysis"),
     External("from_mp3"), EndStep("Audio Analysis", TRUE),
     SetWorkerStatus("clip"), StartStep("Clip Generation"),
     External("create_clip"), EndStep("Clip Generation", TRUE),
     SetWorkerStatus("cleanup"), StartStep("File Cleanup"),
     External("cleanup_full_download"), EndStep("File Cleanup", TRUE),
     AddCompleted("success"), RemoveWorker >>

\* lines 165-167, 208-212 and 236-240: what is left to call after a stage
\* failed
FailedRun(function) ==
  CASE function = "download_audio" ->
         << EndStep("Audio Download", FALSE), AddCompleted("failed"), RemoveWorker >>
    [] function = "from_mp3" ->
         << EndStep("Audio Analysis", FALSE), AddCompleted("failed"), RemoveWorker,
            External("cleanup_full_download") >>
    [] function = "create_clip" ->
         << EndStep("Clip Generation", FALSE), AddCompleted("failed"), RemoveWorker,
            External("cleanup_full_download") >>

\* a variant of LockAfterWith in which leaving the `with` block keeps the lock
LockAfterWithKept(lock, c) == lock

\* leaving `with self.lock:` releases the lock
LockAfterWith(lock, c) == IF lock = c THEN 0 ELSE lock

NewWorker == [ todo |-> SuccessfulRun, phase |-> "out", step_id |-> NoStep ]

lockIdleVars == << settingsVars, schedVars, poolVars, item, calls, pending, files, now,
                   clip, timer, session, expansion, quiz, config >>

LockInit ==
  /\ NoBatchRun
  /\ active_steps = [ s \in {} |-> 0 ]
  /\ steps = << >>
  /\ now = 0
  /\ client = [ lock |-> 0, worker |-> [ c \in Clients |-> NewWorker ] ]
  /\ clip = IdleClip
  /\ timer = IdleTimer
  /\ session = IdleSession
  /\ expansion = IdleExpansion
  /\ quiz = IdleQuiz
  /\ config = IdleConfig
  /\ tracker = IdleTracker

\* worker c is at a call of method set `methods`, in phase `phase`
AtCall(c, methods, phase) ==
  /\ client.worker[c].todo # << >>
  /\ Head(client.worker[c].todo).op \in methods
  /\ client.worker[c].phase = phase

\* `with self.lock:` of a ProgressTracker method is entered: the lock was free
TrackerAcquire(c) ==
  /\ AtCall(c, TrackerMethods, "out")
  /\ tracker.lock = 0
  /\ tracker' = [tracker EXCEPT !.lock = c]
  /\ client' = [client EXCEPT !.worker[c].phase = "in"]
  /\ UNCHANGED << lockIdleVars, trackerVars, loggerVars >>

\* the body of the ProgressTracker method, lines 58-62, 65-69, 72-73
TrackerBody(c) ==
  /\ AtCall(c, TrackerMethods, "in")
  /\ LET call == Head(client.worker[c].todo) IN
       /\ completed_videos' =
            IF call.op = "add_completed_video"
            THEN add_completed_video(completed_videos, InitialTitle(c), call.what,
                   IF call.what = "failed" THEN ErrorText("download failed", "")
                   ELSE NoError)
            ELSE completed_videos
       /\ active_workers' =
            CASE call.op = "set_worker_status" ->
                   set_worker_status(active_workers, << c, c >>, InitialTitle(c), call.what)
              [] call.op = "remove_worker" -> remove_worker(active_workers, << c, c >>)
              [] OTHER -> active_workers
  /\ client' = [client EXCEPT !.worker[c].phase = "after"]
  /\ UNCHANGED << lockIdleVars, loggerVars, tracker >>

\* the `with` block of the ProgressTracker method is left
TrackerRelease(c) ==
  /\ AtCall(c, TrackerMethods, "after")
  /\ tracker' = [tracker EXCEPT !.lock = LockAfterWith(@, c)]
  /\ client' = [client EXCEPT !.worker[c].phase = "out", !.worker[c].todo = Tail(@)]
  /\ UNCHANGED << lockIdleVars, trackerVars, loggerVars >>

\* `with self.lock:` of start_step (line 69) or end_step (line 79) is entered
LoggerAcquire(c) ==
  /\ AtCall(c, LoggerMethods, "out")
  /\ client.lock = 0
  /\ client' = [client EXCEPT !.lock = c, !.worker[c].phase = "in"]
  /\ UNCHANGED << lockIdleVars, trackerVars, loggerVars, tracker >>

\* line 70, or lines 80-93
LoggerBody(c) ==
  /\ AtCall(c, LoggerMethods, "in")
  /\ LET call == Head(client.worker[c].todo)
         step_id == client.worker[c].step_id
     IN
       IF call.op = "start_step_timing"
       THEN /\ active_steps' = start_step(active_steps, call.what, RunStepType(call.what),
                                          InitialTitle(c), << c, call.what >>)
            /\ steps' = steps
            /\ client' = [client EXCEPT !.worker[c].phase = "after",
                                        !.worker[c].step_id =
                                           StepId(call.what, InitialTitle(c))]
       ELSE /\ active_steps' = end_step_active(active_steps, step_id)
            /\ steps' = end_step_steps(active_steps, steps, step_id, call.ok,
                                       IF call.ok THEN NoError ELSE ErrorText("", "error"))
            /\ client' = [client EXCEPT !.worker[c].phase = "after"]
  /\ UNCHANGED << lockIdleVars, trackerVars, tracker >>

\* the `with` block of start_step or end_step is left
LoggerRelease(c) ==
  /\ AtCall(c, LoggerMethods, "after")
  /\ client' = [client EXCEPT !.lock = LockAfterWith(@, c), !.worker[c].phase = "out",
                              !.worker[c].todo = Tail(@)]
  /\ UNCHANGED << lockIdleVars, trackerVars, loggerVars, tracker >>

\* the blocking external call worker c is in returns
ExternalReturns(c) ==
  /\ AtCall(c, ExternalFunctions, "out")
  /\ \E ok \in BOOLEAN :
       LET function == Head(client.worker[c].todo).op IN
       /\ ~ok => function \in FailingFunctions
       /\ client' = [client EXCEPT !.worker[c].todo =
                       IF ok THEN Tail(@) ELSE FailedRun(function)]
  /\ UNCHANGED << lockIdleVars, trackerVars, loggerVars, tracker >>

LockNext ==
  \/ \E c \in Clients : TrackerAcquire(c)
  \/ \E c \in Clients : TrackerBody(c)
  \/ \E c \in Clients : TrackerRelease(c)
  \/ \E c \in Clients : LoggerAcquire(c)
  \/ \E c \in Clients : LoggerBody(c)
  \/ \E c \in Clients : LoggerRelease(c)
  \/ \E c \in Clients : ExternalReturns(c)

SpecLock == LockInit /\ [][LockNext]_vars

(* ---------------- the order in which the locks are taken ---------------- *)
\* The pool threads and the scheduler thread take three locks: PROGRESS_LOCK
\* (create_clips.py line 48), ProgressTracker.lock and PerformanceLogger.lock.
\* A statement is the sequence of locks it takes, outermost first; they are
\* given back in the opposite order.  client.output, tracker.lock and
\* client.lock are the threads holding the three locks (0: free);
\* client.thread[t].todo are the statements thread t has still to run, the
\* first of them the one it is in, .depth how many locks of that statement it
\* holds, .leaving whether it is on its way out of the statement;
\* client.collected are the workers whose future the scheduler has taken.

\* progress_tracker.set_worker_status / add_completed_video / remove_worker
TrackerCallLocks == << "tracker" >>

\* start_step_timing / end_step_timing: `with self.lock:` and nothing inside
LoggerCallLocks == << "logger" >>

\* a variant of EnhancedProgressLocks that reads the tracker first
EnhancedProgressLocksTrackerFirst == << "tracker", "PROGRESS_LOCK" >>

\* `with PROGRESS_LOCK: print_enhanced_progress(...)`, whose line 502 calls
\* progress_tracker.get_progress_data()
EnhancedProgressLocks == << "PROGRESS_LOCK", "tracker" >>

\* `with PROGRESS_LOCK: print(...)`, lines 652-653 and 658-659
ResultLineLocks == << "PROGRESS_LOCK" >>

\* lines 663-682: batch_progress with get_progress_data() under PROGRESS_LOCK
BatchProgressLocks == << "PROGRESS_LOCK", "tracker" >>

\* lines 156-298, every stage succeeding, cleanup_full_downloads on
SuccessfulRunLocks ==
  << TrackerCallLocks, EnhancedProgressLocks, LoggerCallLocks, LoggerCallLocks,
     TrackerCallLocks, LoggerCallLocks, TrackerCallLocks, LoggerCallLocks,
     EnhancedProgressLocks,
     TrackerCallLocks, LoggerCallLocks, LoggerCallLocks,
     TrackerCallLocks, EnhancedProgressLocks, LoggerCallLocks, LoggerCallLocks,
     TrackerCallLocks, EnhancedProgressLocks, LoggerCallLocks, LoggerCallLocks,
     TrackerCallLocks, TrackerCallLocks, EnhancedProgressLocks >>

\* lines 156-173: download_audio returned None
DownloadFailedRunLocks ==
  << TrackerCallLocks, EnhancedProgressLocks, LoggerCallLocks, LoggerCallLocks,
     TrackerCallLocks, TrackerCallLocks >>

Scheduler == NumClients + 1
Threads == Clients \cup { Scheduler }

orderIdleVars == << lockIdleVars, trackerVars, loggerVars >>

NewThread(todo) == [ todo |-> todo, depth |-> 0, leaving |-> FALSE ]

OrderInit ==
  /\ NoBatchRun
  /\ active_steps = [ s \in {} |-> 0 ]
  /\ steps = << >>
  /\ now = 0
  /\ \E runs \in [ Clients -> { SuccessfulRunLocks, DownloadFailedRunLocks } ] :
       client = [ lock |-> 0, output |-> 0,
                  thread |-> [ t \in Threads |->
                                 IF t = Scheduler THEN NewThread(<< >>)
                                 ELSE NewThread(runs[t]) ],
                  collected |-> {} ]
  /\ clip = IdleClip
  /\ timer = IdleTimer
  /\ session = IdleSession
  /\ expansion = IdleExpansion
  /\ quiz = IdleQuiz
  /\ config = IdleConfig
  /\ tracker = IdleTracker

LockHolder(name) ==
  CASE name = "tracker" -> tracker.lock
    [] name = "logger" -> client.lock
    [] name = "PROGRESS_LOCK" -> client.output

\* the lock `name` is held by `holder` afterwards, and thread t is as `th`
LockHeldBy(name, holder, t, th) ==
  /\ tracker' = IF name = "tracker" THEN [tracker EXCEPT !.lock = holder] ELSE tracker
  /\ client' = [client EXCEPT
       !.lock = IF name = "logger" THEN holder ELSE @,
       !.output = IF name = "PROGRESS_LOCK" THEN holder ELSE @,
       !.thread[t] = th]

\* the lock thread t asks for next: the statement it is in, one level deeper
Requested(t) ==
  LET th == client.thread[t] IN
  IF th.todo # << >> /\ ~th.leaving /\ th.depth < Len(Head(th.todo))
  THEN Head(th.todo)[th.depth + 1] ELSE "none"

\* the locks thread t holds, outermost first
HeldLocks(t) ==
  LET th == client.thread[t] IN
  IF th.todo = << >> THEN << >> ELSE SubSeq(Head(th.todo), 1, th.depth)

\* `with lock:` is entered: the lock was free
OrderAcquire(t) ==
  /\ Requested(t) # "none"
  /\ LockHolder(Requested(t)) = 0
  /\ LockHeldBy(Requested(t), t, t, [ client.thread[t] EXCEPT !.depth = @ + 1 ])
  /\ UNCHANGED orderIdleVars

\* the innermost `with` block thread t is in is left; out of the outermost
\* one the statement is over
OrderRelease(t) ==
  LET th == client.thread[t] IN
  /\ th.todo # << >>
  /\ th.depth > 0
  /\ th.leaving \/ th.depth = Len(Head(th.todo))
  /\ LockHeldBy(Head(th.todo)[th.depth], 0, t,
                IF th.depth = 1 THEN NewThread(Tail(th.todo))
                ELSE [ th EXCEPT !.depth = @ - 1, !.leaving = TRUE ])
  /\ UNCHANGED orderIdleVars

\* as_completed yields the future of worker c, which has returned: the result
\* line, and batch_progress after the last of them (completed_count ==
\* total_songs, line 662)
OrderCollect(c) ==
  /\ client.thread[Scheduler].todo = << >>
  /\ c \in Clients \ client.collected
  /\ client.thread[c].todo = << >>
  /\ client' = [client EXCEPT
       !.collected = @ \cup { c },
       !.thread[Scheduler] =
          NewThread(<< ResultLineLocks >> \o
                    (IF client.collected \cup { c } = Clients
                     THEN << BatchProgressLocks >> ELSE << >>))]
  /\ UNCHANGED << orderIdleVars, tracker >>

OrderNext ==
  \/ \E t \in Threads : OrderAcquire(t)
  \/ \E t \in Threads : OrderRelease(t)
  \/ \E c \in Clients : OrderCollect(c)

SpecOrder == OrderInit /\ [][OrderNext]_vars

\* every thread keeps running: a thread that can take its next step does
FairSpecOrder ==
  /\ SpecOrder
  /\ \A t \in Threads : WF_vars(OrderAcquire(t)) /\ WF_vars(OrderRelease(t))
  /\ \A c \in Clients : WF_vars(OrderCollect(c))

(* ------------- the collection loop with futures that raise ------------- *)
\* As the collection loop above, and a pipeline run may also leave
\* process_single_url by an exception, which future.result() (line 645) raises
\* again in the scheduler; item[i].pc = "raised" marks such a future.
MaxRaiseItems == 3

\* the collection loop over a batch of up to MaxRaiseItems urls
CollectRaiseInit ==
  /\ CollectInit
  /\ Len(expanded_urls) <= MaxRaiseItems

RunRaises(i) ==
  /\ schedPc = "collect"
  /\ i \in pending
  /\ future[i] = << >>
  /\ item[i].pc = "queued"
  /\ \A j \in pending : future[j] = << >> /\ item[j].pc # "raised"
  /\ item' = [item EXCEPT ![i].pc = "raised"]
  /\ UNCHANGED << settingsVars, schedVars, poolVars, calls, pending, files, trackerVars,
                  loggerVars, now, otherSpecVars >>

\* the result the scheduler's `except Exception` appends; lines 685-689
TaskErrorResult(i, e) ==
  ProcessingResult(FALSE, expanded_urls[i], NoSongData,
                   ErrorText("task execution error: ", e), i)

\* one iteration of the loop in which future.result() raises: line 642, then
\* lines 684-693
CollectRaised(i) ==
  /\ schedPc = "collect"
  /\ i \in pending
  /\ item[i].pc = "raised"
  /\ pending' = pending \ { i }
  /\ completed_count' = (completed_count + 1) + 1
  /\ \E e \in ExceptionTexts :
       failed_results' = Append(failed_results, TaskErrorResult(i, e))
  /\ UNCHANGED << settingsVars, schedPc, successful_results, events, poolVars, item,
                  calls, files, trackerVars, loggerVars, now, otherSpecVars >>

CollectRaiseNext ==
  \/ \E i \in Items, ok \in BOOLEAN :
       /\ i \in pending
       /\ \A j \in pending : item[j].pc # "raised"
       /\ RunReturns(i, ok)
  \/ \E i \in Items : RunRaises(i)
  \/ \E i \in Items : Collect(i)
  \/ \E i \in Items : CollectRaised(i)
  \/ EmitCompletion

SpecCollectRaise == CollectRaiseInit /\ [][CollectRaiseNext]_vars

(* ============================== claims ================================= *)
AllResults == successful_results \o failed_results
Running(i) == item[i].pc \notin { "queued", "returned" }
Count(seq, P(_)) == Cardinality({ k \in 1..Len(seq) : P(seq[k]) })

\* C1: in every batch run the collected results (successful plus failed) are
\* as many as the expanded items the loop has taken so far, hence as many as
\* the expanded items once the run is over, whichever items failed and where;
\* the completion event reports the same two counts.
C1_BatchCompleteness ==
  /\ schedPc \in { "collect", "done" } =>
       Len(successful_results) + Len(failed_results)
         = Len(expanded_urls) - Cardinality(pending)
  /\ schedPc = "done" =>
       /\ Len(successful_results) + Len(failed_results) = Len(expanded_urls)
       /\ events[Len(events)].type = "completion"
       /\ events[Len(events)].successful = Count(AllResults, LAMBDA r : r.success)
       /\ events[Len(events)].failed = Count(AllResults, LAMBDA r : ~r.success)
       /\ events[Len(events)].successful + events[Len(events)].failed = Len(expanded_urls)

\* a finished batch of two items, one failed at download and one done
C1_Witness ==
  /\ schedPc = "done"
  /\ Len(expanded_urls) = 2
  /\ Len(successful_results) = 1
  /\ Len(failed_results) = 1
  /\ failed_results[1].error = ErrorText("download failed", "")

\* C2: no failure of an item aborts the batch: with every external call
\* returning, every expanded item is dispatched, its pipeline returns a
\* result, the scheduler collects it, and the run ends.
C2_BatchTerminates ==
  <>( /\ schedPc = "done"
      /\ pending = {}
      /\ queue = << >>
      /\ \A i \in Items : item[i].pc = "returned" /\ future[i] # << >>
      /\ Len(AllResults) = Len(expanded_urls) )

\* a finished batch in which an item failed and a later item still ran
C2_Witness ==
  /\ schedPc = "done"
  /\ Len(failed_results) >= 1
  /\ Len(successful_results) >= 1
  /\ failed_results[1].index < successful_results[1].index

\* C3: the pipelines started and not yet returned are never more than
\* MAX_WORKERS, which is the settings' max_workers within 1..5, and each of
\* them has a pool thread of its own: a thread takes no item while the one it
\* runs has not returned.
C3_BoundedWorkers ==
  /\ MAX_WORKERS = user_settings.max_workers
  /\ MAX_WORKERS \in 1..5
  /\ Cardinality({ i \in Items : Running(i) }) <= MAX_WORKERS
  /\ \A i \in Items : Running(i) =>
       item[i].thread \in PoolThreads /\ thread[item[i].thread] = i
  /\ \A t \in 1..5 : thread[t] # 0 => Running(thread[t])

\* one worker, two items: the second waits in the queue while the first runs
C3_Witness ==
  /\ MAX_WORKERS = 1
  /\ Len(expanded_urls) = 2
  /\ Running(1)
  /\ queue = << 2 >>

\* C4: every pipeline run that is over has handed a ProcessingResult to its
\* future; a failed one carries no song_data and an error text that is not
\* empty, a successful one carries song_data and no error.
C4_AlwaysAResult ==
  \A i \in Items :
    /\ item[i].pc = "returned" <=> future[i] # << >>
    /\ future[i] # << >> =>
         LET r == future[i][1] IN
         /\ r.index = i
         /\ r.success => r.song_data # NoSongData /\ r.error = NoError
         /\ ~r.success =>
              r.song_data = NoSongData /\ r.error # NoError /\ ~IsEmptyText(r.error)

\* a run that failed through the outer handler, with an exception whose text
\* is empty
C4_Witness ==
  \E i \in Items :
    /\ future[i] # << >>
    /\ future[i][1].error = ErrorText("unexpected error: ", "")

\* C5: every collected result carries the url that was passed to the
\* pipeline run that built it, no run is collected twice, and once the batch
\* is over every url occurs among the results as often as among the expanded
\* urls, whatever the order of completion.
C5_ResultsPairedWithLinks ==
  /\ \A k \in 1..Len(AllResults) :
       /\ AllResults[k].index \in Items
       /\ AllResults[k].url = expanded_urls[AllResults[k].index]
  /\ \A k, l \in 1..Len(AllResults) :
       AllResults[k].index = AllResults[l].index => k = l
  /\ schedPc = "done" =>
       \A u \in Urls :
         Count(AllResults, LAMBDA r : r.url = u) = Count(expanded_urls, LAMBDA x : x = u)

\* two different links, both successful, collected in the reverse order
C5_Witness ==
  /\ schedPc = "done"
  /\ expanded_urls = << 1, 2 >>
  /\ Len(successful_results) = 2
  /\ successful_results[1].index = 2
  /\ successful_results[1].url = 2


\* C6: the clip_start recorded for an item that reached clip generation is
\* min(offset, max(0, duration - clip_duration - 5)); when the duration is at
\* least offset + clip_duration + 5 it is the offset, the recorded
\* clip_duration is the configured one and create_clip slices that window;
\* with offset 30 and length 10, duration 50 gives 30 and duration 35 gives 20.
C6_ClipStartFormula ==
  clip.pc \in { "data", "done" } =>
    LET d == clip.len_ms \div 1000
        off == user_settings.clip_start_offset
        cl == user_settings.clip_duration
        room == d - cl - 5
    IN
    /\ clip.duration_seconds = d
    /\ clip.clip_start = IF room <= 0 THEN 0 ELSE IF off <= room THEN off ELSE room
    /\ d >= off + cl + 5 =>
         /\ clip.clip_start = off
         /\ clip.window = [ start_time |-> off, duration |-> cl ]
    /\ (off = 30 /\ cl = 10 /\ d = 50) => clip.clip_start = 30
    /\ (off = 30 /\ cl = 10 /\ d = 35) => clip.clip_start = 20
    /\ clip.pc = "done" =>
         /\ clip.song_data.clip_start = clip.clip_start
         /\ clip.song_data.clip_duration = cl
         /\ clip.song_data.duration = d

\* offset 30, length 10, a 35 second source: the record says start 20
C6_Witness ==
  /\ clip.pc = "done"
  /\ user_settings.clip_start_offset = 30
  /\ user_settings.clip_duration = 10
  /\ clip.len_ms \div 1000 = 35
  /\ clip.song_data.clip_start = 20
  /\ clip.window = [ start_time |-> 20, duration |-> 10 ]

\* C7: every song_data of a successful run has clip_start >= 0 and
\* clip_start + clip_duration <= duration, sources shorter than the configured
\* clip length included.
C7_ClipInsideSource ==
  clip.pc = "done" =>
    /\ clip.song_data.clip_start >= 0
    /\ clip.song_data.clip_start + clip.song_data.clip_duration
         <= clip.song_data.duration

\* C8: after end_step(step_id) with the id a start_step call returned, the
\* step of that call is in session.steps exactly once, its duration is
\* end_time - start_time and is the value returned, and the id is no longer a
\* key of active_steps, whatever other workers called in between.
C8_EndedStepSealedOnce ==
  (client.last.op = "end" /\ client.last.call # << 0, 0 >>) =>
    /\ Count(steps, LAMBDA s : s.call = client.last.call) = 1
    /\ \A k \in 1..Len(steps) :
         steps[k].call = client.last.call =>
           /\ steps[k].duration = steps[k].end_time - steps[k].start_time
           /\ steps[k].duration = client.last.ret
    /\ client.last.id \notin DOMAIN active_steps

\* C9: the step ids held by pipeline runs that are under way are pairwise
\* different, and the entry of each in active_steps is the one its own
\* start_step call stored: no start_step overwrote it.
C9_ActiveStepIdsUnique ==
  /\ \A i, j \in Items :
       (i # j /\ Running(i) /\ Running(j)) => item[i].step_id # item[j].step_id
  /\ \A i \in Items :
       Running(i) =>
         /\ item[i].step_id \in DOMAIN active_steps
         /\ active_steps[item[i].step_id].call[1] = i

\* C10: an end_step call whose id is not a key of active_steps returns None
\* and leaves active_steps and session.steps as they were.
C10_UnknownEndIsNoOp ==
  [][ (client'.calls # client.calls /\ client'.last.op = "end" /\ ~client'.last.known)
        => /\ client'.last.ret = NoTime
           /\ active_steps' = active_steps
           /\ steps' = steps ]_vars

\* end_step with an id that is not active, made while another step is active
\* and one has been sealed already
C10_Witness ==
  /\ client.last.op = "end"
  /\ ~client.last.known
  /\ client.last.ret = NoTime
  /\ Len(steps) >= 1
  /\ DOMAIN active_steps # {}


\* C11: once a step_timer block has been left, the step of its start_step
\* call is in session.steps exactly once; that record has success = TRUE
\* exactly when the work completed, carries str(e) as error_message when the
\* work raised e, and the same e left the block.
C11_TimerSealsOnce ==
  \A c \in Clients :
    timer[c].pc = "exited" =>
      /\ Count(steps, LAMBDA s : s.call = timer[c].call) = 1
      /\ \A k \in 1..Len(steps) :
           steps[k].call = timer[c].call =>
             /\ steps[k].success = (timer[c].exc = NoError)
             /\ steps[k].error_message = timer[c].exc
      /\ timer[c].reraised = timer[c].exc


\* C12: end_session is guarded against repetition: a session prints at most
\* one session_performance event, and a call made after the session was
\* finalized comes back as an error.
C12_EndSessionGuarded ==
  /\ Len(session.events) <= 1
  /\ session.calls > 1 => session.last = "error"


\* the performance_issues of a summary; the summary of a session without
\* steps has no such key
IssuesOf(summary) ==
  IF "performance_issues" \in DOMAIN summary THEN summary.performance_issues ELSE << >>

\* C13: the summary holds a slow_operation issue for a step type exactly when
\* the average duration of the sealed steps of that type is strictly above
\* its threshold (download 30, clip_generation 5, metadata_extraction 1,
\* database_save 2, file_cleanup 1, any other type 5); there is at most one
\* such issue per type, and end_session returns the session all the same.
C13_SlowOperationIffAboveThreshold ==
  session.calls = 1 =>
    LET issues == IssuesOf(session.summary)
        threshold(t) == CASE t = "download" -> 30
                          [] t = "clip_generation" -> 5
                          [] t = "metadata_extraction" -> 1
                          [] t = "database_save" -> 2
                          [] t = "file_cleanup" -> 1
                          [] OTHER -> 5
        of(t) == { k \in 1..Len(steps) : steps[k].step_type = t }
        \* every duration drawn is at least the threshold of its type: the
        \* average is above it exactly when one of them is
        above(t) == \E k \in of(t) : steps[k].duration > threshold(t)
        slow(t) == { k \in 1..Len(issues) :
                       issues[k].type = "slow_operation" /\ issues[k].step_type = t }
    IN
    /\ \A t \in StepTypes :
         /\ Cardinality(slow(t)) = (IF above(t) THEN 1 ELSE 0)
         /\ \A k \in slow(t) :
              /\ issues[k].threshold = threshold(t)
              /\ issues[k].count = Cardinality(of(t))
              /\ issues[k].average_duration[2] = Cardinality(of(t))
              /\ issues[k].average_duration[1]
                   > issues[k].threshold * issues[k].average_duration[2]
    /\ session.last = "session"

\* two downloads of 30 and 31 seconds (average 30.5) are reported, two
\* metadata steps of 1 second each (average 1.0) are not
C13_Witness ==
  /\ session.calls = 1
  /\ Len(steps) = 4
  /\ steps[1].step_type = "download" /\ steps[1].duration = 30
  /\ steps[2].step_type = "download" /\ steps[2].duration = 31
  /\ steps[3].step_type = "metadata_extraction" /\ steps[3].duration = 1
  /\ steps[4].step_type = "metadata_extraction" /\ steps[4].duration = 1
  /\ \E k \in 1..Len(IssuesOf(session.summary)) :
       /\ IssuesOf(session.summary)[k].type = "slow_operation"
       /\ IssuesOf(session.summary)[k].step_type = "download"
       /\ IssuesOf(session.summary)[k].average_duration = << 61, 2 >>

C15_WorkerStatusOnlyWhileActive ==
  /\ \A w \in DOMAIN active_workers :
       w[2] \in Items /\ Running(w[2]) /\ item[w[2]].thread = w[1]
  /\ \A i \in Items :
       /\ Running(i) => WorkerId(i) \in DOMAIN active_workers
       /\ item[i].pc = "returned" => \A w \in DOMAIN active_workers : w[2] # i
  /\ schedPc = "done" =>
       active_workers = << >> /\ get_progress_data.active_workers = {}

\* a finished batch with one run ended by the outer handler and one success
C15_Witness ==
  /\ schedPc = "done"
  /\ Len(successful_results) = 1
  /\ Len(failed_results) = 1
  /\ failed_results[1].error[1] = "unexpected error: "
  /\ DOMAIN active_workers = {}

\* C16: completed_videos only grows at its end: every step of any worker in
\* any tracker method leaves the earlier list as a prefix of the later one,
\* and every add_completed_video call that has returned has exactly one entry.
C16_CompletedAppendOnly ==
  [][ /\ Len(completed_videos') >= Len(completed_videos)
      /\ SubSeq(completed_videos', 1, Len(completed_videos)) = completed_videos
      /\ \A title \in tracker'.added :
           Count(completed_videos', LAMBDA v : v.title = title) = 1 ]_vars

\* the two workers have added one entry each, a snapshot was taken in
\* between, and a fourth call holds the lock
C16_Witness ==
  /\ Len(completed_videos) = 2
  /\ Cardinality(tracker.added) = 2
  /\ Len(tracker.snapshot.completed_videos) = 1
  /\ completed_videos[1].title # completed_videos[2].title
  /\ tracker.lock # 0


\* what C17 expects in the place of the k-th input link of a finished
\* expansion: the link itself, or the well-formed members of its playlist in
\* the order yt-dlp printed them
RECURSIVE C17_Members(_)
C17_Members(lines) ==
  IF lines = << >> THEN << >>
  ELSE LET id == Strip(Head(lines))
           wellFormed == /\ Len(id) = 11
                         /\ \A k \in 1..Len(id) : id[k] \notin { "-", " ", "&" }
       IN (IF wellFormed THEN << << WatchPrefix >> \o id >> ELSE << >>)
          \o C17_Members(Tail(lines))

RECURSIVE C17_Expected(_)
C17_Expected(k) ==
  IF k = 0 THEN << >>
  ELSE C17_Expected(k - 1) \o
       (IF expansion.runs[k] = << >> THEN << expansion.original_urls[k] >>
        ELSE IF expansion.runs[k][1] = Failed THEN << >>
        ELSE C17_Members(expansion.runs[k][1]))

C19_OneCompletionEvent ==
  /\ Count(events, LAMBDA e : e.type = "completion") = (IF schedPc = "done" THEN 1 ELSE 0)
  /\ schedPc = "done" =>
       /\ pending = {}
       /\ \A i \in Items : future[i] # << >>
       /\ events[Len(events)].type = "completion"
       /\ events[Len(events)].successful = Len(successful_results)
       /\ events[Len(events)].failed = Len(failed_results)
       /\ Len(successful_results) = Count(AllResults, LAMBDA r : r.success)
       /\ Len(failed_results) = Count(AllResults, LAMBDA r : ~r.success)

\* a batch of two items that both failed
C19_Witness ==
  /\ schedPc = "done"
  /\ Len(expanded_urls) = 2
  /\ successful_results = << >>
  /\ Len(events) = 2
  /\ events[1].type = "batch_progress"
  /\ events[2] = [ type |-> "completion", completed |-> 2, successful |-> 0, failed |-> 2 ]


\* C20: the options returned for a question are option_count many, hold the
\* correct title exactly once and no entry twice, for 4, 6 and 8 options and
\* for catalogues with fewer than option_count - 1 other titles too.
C20_OptionsCompleteAndDistinct ==
  quiz.pc = "done" =>
    /\ Len(quiz.all_options) = quiz.option_count
    /\ Count(quiz.all_options, LAMBDA o : o = quiz.correct_title) = 1
    /\ \A k, l \in 1..Len(quiz.all_options) :
         quiz.all_options[k] = quiz.all_options[l] => k = l


\* the titles of the catalogue other than the correct one
C21_Eligible ==
  SelectSeq(quiz.all_songs, LAMBDA title : title # quiz.correct_title)

\* C21: when the catalogue has fewer than option_count - 1 other titles, the
\* made-up titles only fill the shortage: every other title of the catalogue
\* is among the options, and the made-up titles among the options are
\* option_count - 1 minus the number of other titles.
C21_FallbackOnlyFillsShortage ==
  (quiz.pc = "done" /\ Len(C21_Eligible) < quiz.option_count - 1) =>
    /\ \A k \in 1..Len(C21_Eligible) :
         \E l \in 1..Len(quiz.all_options) : quiz.all_options[l] = C21_Eligible[k]
    /\ Count(quiz.all_options,
             LAMBDA o : \E f \in 1..Len(fake_titles) : fake_titles[f] = o)
         = (quiz.option_count - 1) - Len(C21_Eligible)


\* C22: whatever the settings file is, the settings in force have
\* 1 <= max_workers <= 5 and clip_duration <= 10, and when the file is
\* missing or its loading fails they are the defaults (clip 10, offset 30,
\* cleanup on, 3 workers).
C22_SettingsClampedAndDefaulted ==
  config.pc \in { "loaded", "adopted" } =>
    /\ 1 <= config.settings.max_workers /\ config.settings.max_workers <= 5
    /\ config.settings.clip_duration <= 10
    /\ (~config.file.exists \/ config.file.fault # "none") =>
         config.settings = DefaultSettings


\* the place of a stage and of its step in the order of the pipeline
C23_StageRank(stage) ==
  CASE stage = "downloading" -> 1 [] stage = "metadata" -> 2 [] stage = "analysis" -> 3
    [] stage = "clip" -> 4 [] stage = "cleanup" -> 5 [] OTHER -> 0
C23_StepRank(step_name) ==
  CASE step_name = "Audio Download" -> 1 [] step_name = "Metadata Extraction" -> 2
    [] step_name = "Audio Analysis" -> 3 [] step_name = "Clip Generation" -> 4
    [] step_name = "File Cleanup" -> 5 [] OTHER -> 0

\* The calls of run i from the k-th on are in order, `started` steps having
\* been started and `ended` of them ended before, the run being under way
\* (over = 0), failed (1) or returned (2):
\*   - a step is started only as the next one of the order and when the
\*     steps before it have ended;
\*   - a stage is reported only if it is the stage of the latest step, or the
\*     next one of the order when the steps before have ended;
\*   - after a failed step only the tracker's bookkeeping, the conditional
\*     removal of the download and the return follow; nothing follows a return.
RECURSIVE C23_InOrder(_, _, _, _, _)
C23_InOrder(i, k, started, ended, over) ==
  IF k > Len(calls[i]) THEN TRUE
  ELSE LET c == calls[i][k] IN
       /\ over # 2
       /\ over = 1 => c.op \in { "add_completed_video", "remove_worker",
                                 "cleanup_full_download", "outcome", "return" }
       /\ c.op = "start_step_timing" =>
            C23_StepRank(c.what) = started + 1 /\ ended = started
       /\ c.op = "set_worker_status" =>
            \/ C23_StageRank(c.what) = started + 1 /\ ended = started
            \/ C23_StageRank(c.what) = started
       /\ c.op = "end_step_timing" => C23_StepRank(c.what) = started /\ ended = started - 1
       /\ C23_InOrder(i, k + 1,
            IF c.op = "start_step_timing" THEN started + 1 ELSE started,
            IF c.op = "end_step_timing" THEN ended + 1 ELSE ended,
            IF c.op = "return" THEN 2
            ELSE IF c.op = "end_step_timing" /\ ~c.ok THEN 1 ELSE over)

\* C23: the stages of one pipeline run come in the order download, metadata,
\* analysis, clip, cleanup, each at most once; a stage is entered only when
\* the one before it has ended; once a stage has failed the run enters no
\* stage and starts no step.
C23_StagesInOrder == \A i \in Items : C23_InOrder(i, 1, 0, 0, 0)

\* a run failed after its analysis step had started and the download was
\* removed, and returned
C23_Witness ==
  \E i \in Items :
    /\ calls[i] # << >> /\ calls[i][Len(calls[i])] = Return(FALSE)
    /\ \E k \in 1..Len(calls[i]) : calls[i][k] = StartStep("Audio Analysis")
    /\ \E k \in 1..Len(calls[i]) : calls[i][k] = External("cleanup_full_download")


\* download_audio gave run i None: yt-dlp exited non-zero, or it wrote no
\* file and the directory holds none
C24_DownloadFailed(i) ==
  \E k \in 2..Len(calls[i]) :
    calls[i][k - 1] = External("download_audio") /\ calls[i][k] = Outcome("None")

\* C24: when the download gives no file the run returns a failure whose error
\* is "download failed", its download step is sealed once, as a failure,
\* download_audio was called once, and the run started no other step.
C24_DownloadFailureIsFinal ==
  \A i \in Items :
    C24_DownloadFailed(i) =>
      /\ future[i] = << ProcessingResult(FALSE, expanded_urls[i], NoSongData,
                                         ErrorText("download failed", ""), i) >>
      /\ Cardinality({ k \in 1..Len(steps) :
                         steps[k].call = << i, "Audio Download" >> }) = 1
      /\ \A k \in 1..Len(steps) :
           steps[k].call = << i, "Audio Download" >> =>
             /\ ~steps[k].success
             /\ steps[k].error_message = ErrorText("download failed", "")
      /\ Count(calls[i], LAMBDA c : c = External("download_audio")) = 1
      /\ \A k \in 1..Len(calls[i]) :
           calls[i][k].op = "start_step_timing" => calls[i][k].what = "Audio Download"
      /\ \A id \in DOMAIN active_steps : active_steps[id].call[1] # i

\* a run whose download gave no file has been collected
C24_Witness ==
  \E i \in Items : C24_DownloadFailed(i) /\ i \notin pending /\ schedPc = "done"


\* C25: whatever extract_metadata finds (a title tag, no tag, a file it cannot
\* read) the metadata step ends as a success and the run goes on to the
\* analysis stage under a title: the tag's, or the one derived from the file
\* name.
C25_MetadataNeverFails ==
  \A i \in Items :
    \A k \in 2..Len(calls[i]) :
      calls[i][k - 1].op = "extract_metadata" =>
        /\ calls[i][k].op = "outcome" /\ calls[i][k].what \in { "tag", "stem" }
        /\ SubSeq(calls[i], k + 1, k + 5)
             = << SetWorkerStatus("metadata"), EndStep("Metadata Extraction", TRUE),
                  SetWorkerStatus("analysis"), StartStep("Audio Analysis"),
                  External("from_mp3") >>
        /\ item[i].pc = "analysis" =>
             /\ item[i].song_title = << calls[i][k].what, item[i].audio_path >>
             /\ item[i].song_title # NoTitle
        /\ \E n \in 1..Len(steps) :
             /\ steps[n].call = << i, "Metadata Extraction" >>
             /\ steps[n].success

\* a run is at its analysis stage under a file-name title although its file
\* carries a title tag: the file was gone (another run of the same link had
\* removed it) when extract_metadata read it
C25_Witness ==
  \E i \in Items :
    /\ item[i].pc = "analysis"
    /\ HasTitleTag(item[i].audio_path)
    /\ item[i].song_title[1] = "stem"


\* the analysis or the clip step of run i failed
C26_FailedAfterDownload(i) ==
  \E k \in 1..Len(calls[i]) :
    calls[i][k] \in { EndStep("Audio Analysis", FALSE), EndStep("Clip Generation", FALSE) }

\* C26: a run whose analysis or clip step fails returns a failure, and it
\* removes the download if and only if cleanup_full_downloads is set: with
\* the flag it calls cleanup_full_download, and the file is gone unless
\* os.remove failed; without the flag it does not, and the file stays.
C26_FailureCleansUpPerFlag ==
  \A i \in Items :
    C26_FailedAfterDownload(i) =>
      /\ calls[i][Len(calls[i])] = Return(FALSE)
      /\ user_settings.cleanup_full_downloads <=>
           \E k \in 1..Len(calls[i]) : calls[i][k] = External("cleanup_full_download")
      /\ ~user_settings.cleanup_full_downloads => expanded_urls[i] \in files


\* os.remove failed in the cleanup stage of run i
C27_CleanupFailed(i) ==
  \E k \in 3..Len(calls[i]) :
    /\ calls[i][k - 2] = StartStep("File Cleanup")
    /\ calls[i][k - 1] = External("cleanup_full_download")
    /\ calls[i][k] = Outcome("failed")

\* C27: a run whose cleanup stage could not delete the download still returns
\* a success with its song data, and the tracker holds it as a success.
C27_CleanupFailureNotFatal ==
  \A i \in Items :
    C27_CleanupFailed(i) =>
      /\ calls[i][Len(calls[i])] = Return(TRUE)
      /\ future[i] # << >>
      /\ future[i][1].success
      /\ future[i][1].error = NoError
      /\ future[i][1].song_data # NoSongData
      /\ \E k \in 1..Len(completed_videos) :
           /\ completed_videos[k].title = future[i][1].song_data.title
           /\ completed_videos[k].status = "success"
      /\ \A k \in 1..Len(completed_videos) : completed_videos[k].status # "failed"
      /\ i \notin pending => /\ Len(successful_results) = 1
                             /\ failed_results = << >>

\* the batch is over, the run's cleanup had failed and its download is still
\* in the directory
C27_Witness ==
  \E i \in Items :
    /\ C27_CleanupFailed(i)
    /\ schedPc = "done"
    /\ future[i][1].song_data.clip_path \in files


\* C28: with cleanup_full_downloads off a run enters no cleanup stage: it
\* reports no cleanup status to the tracker and starts no file_cleanup step.
C28_NoCleanupStageWithoutFlag ==
  ~user_settings.cleanup_full_downloads =>
    /\ \A i \in Items : \A k \in 1..Len(calls[i]) :
         /\ calls[i][k] # SetWorkerStatus("cleanup")
         /\ calls[i][k] # StartStep("File Cleanup")
         /\ calls[i][k] # External("cleanup_full_download")
    /\ \A k \in 1..Len(steps) : steps[k].step_type # "file_cleanup"
    /\ \A id \in DOMAIN active_steps : active_steps[id].step_type # "file_cleanup"

\* C29: the session Summary is computed once, after every worker has returned
\* and every started step has been sealed (as many sealed records as
\* start_step_timing calls, none still active); after that call no record is
\* appended to the sealed sequence and the Summary does not change.
C29_StartedSteps ==
  Cardinality({ ik \in UNION { { << i, k >> : k \in 1..Len(calls[i]) } : i \in Items } :
                  calls[ik[1]][ik[2]].op = "start_step_timing" })

C29_AllReturnedAndSealed ==
  /\ process_urls_parallel_returned
  /\ \A t \in PoolThreads : thread[t] = 0
  /\ \A i \in Items : future[i] # << >>
  /\ DOMAIN active_steps = {}
  /\ Len(steps) = C29_StartedSteps

C29_FrozenAfterEndSession ==
  [][session.calls > 0 =>
       /\ steps' = steps
       /\ session'.summary = session.summary
       /\ session'.calls = session.calls]_vars

C29_SummaryOnceAfterAllSealed ==
  /\ [](session.calls > 0 =>
          C29_AllReturnedAndSealed /\ session.summary = generate_summary(steps))
  /\ C29_FrozenAfterEndSession

\* C30: every mutation of the active-steps map, the sealed step sequence and
\* the tracker's worker-status / completed-items state is made by a worker
\* that holds that component's mutex before and after the mutation, and a
\* worker inside a blocking external call holds neither mutex.
C30_InExternalCall(c) == AtCall(c, ExternalFunctions, "out")

C30_NoLockAcrossBlockingCall ==
  \A c \in Clients : C30_InExternalCall(c) => client.lock # c /\ tracker.lock # c

C30_MutationsUnderLock ==
  [][/\ (active_steps' # active_steps \/ steps' # steps) =>
          \E c \in Clients : /\ client.lock = c /\ client'.lock = c
                             /\ client'.worker[c] # client.worker[c]
     /\ (completed_videos' # completed_videos \/ active_workers' # active_workers) =>
          \E c \in Clients : /\ tracker.lock = c /\ tracker'.lock = c
                             /\ client'.worker[c] # client.worker[c]]_vars

C30_MutexDiscipline == []C30_NoLockAcrossBlockingCall /\ C30_MutationsUnderLock

\* one worker is inside download_audio while the other, holding the logger's
\* lock, has just sealed a step, and the tracker has been written as well
C30_Witness ==
  \E c, d \in Clients :
    /\ c # d
    /\ C30_InExternalCall(c)
    /\ Head(client.worker[c].todo).op = "download_audio"
    /\ AtCall(d, { "end_step_timing" }, "after")
    /\ client.lock = d
    /\ steps # << >>
    /\ DOMAIN active_workers # {}

\* C31: each item is recorded in completed_videos exactly once per run on
\* every exit path, so when the batch is over the list is as long as the
\* expanded url list and its success / failed entries are as many as the
\* batch's successful / failed results.
C31_Recorded(status) ==
  Cardinality({ k \in 1..Len(completed_videos) : completed_videos[k].status = status })

C31_RecordedOncePerItem ==
  schedPc = "done" =>
    /\ Len(completed_videos) = Len(expanded_urls)
    /\ C31_Recorded("success") = Len(successful_results)
    /\ C31_Recorded("failed") = Len(failed_results)

\* C32: the audio file a run analyzes, clips and cleans up is the file its own
\* download produced (the file of its url), and no cleanup removes a file
\* that another run, still active, is using.
C32_Using(j) == item[j].pc \in { "metadata", "analysis", "clip", "cleanup" }

C32_OwnFile ==
  \A i \in Items : C32_Using(i) => item[i].audio_path = expanded_urls[i]

C32_NoForeignDelete ==
  [][\A i, j \in Items :
       (/\ i # j
        /\ item'[i].pc # item[i].pc
        /\ C32_Using(j)
        /\ item[j].audio_path \in files)
       => item[j].audio_path \in files']_vars

C32_RunsKeepTheirOwnFile == []C32_OwnFile /\ C32_NoForeignDelete

\* C33: the locks are taken in one order (PROGRESS_LOCK before the tracker's
\* lock, the logger's lock never together with another), no state with a
\* thread still at work is without a possible step, and every thread that
\* asks for a lock gets it.
C33_OrderedHolding ==
  \A t \in Threads :
    \/ HeldLocks(t) \in { << >>, << "PROGRESS_LOCK" >>, << "tracker" >>, << "logger" >>,
                          << "PROGRESS_LOCK", "tracker" >> }

C33_AloneWithLogger ==
  \A t \in Threads :
    /\ (HeldLocks(t) # << >> /\ Requested(t) # "none") =>
          (HeldLocks(t) = << "PROGRESS_LOCK" >> /\ Requested(t) = "tracker")

C33_NoDeadlock ==
  (\E t \in Threads : client.thread[t].todo # << >>) => ENABLED OrderNext

C33_LocksOrderedAndLive ==
  /\ [](C33_OrderedHolding /\ C33_AloneWithLogger /\ C33_NoDeadlock)
  /\ \A t \in Threads :
       \A name \in { "PROGRESS_LOCK", "tracker", "logger" } :
         (Requested(t) = name) ~> (name \in { HeldLocks(t)[k] : k \in 1..Len(HeldLocks(t)) })

\* the scheduler waits for PROGRESS_LOCK, held by a worker that in turn
\* waits inside it for the tracker's lock
C33_Witness ==
  \E c \in Clients :
    /\ HeldLocks(c) = << "PROGRESS_LOCK" >> /\ Requested(c) = "tracker"
    /\ Requested(Scheduler) = "PROGRESS_LOCK"
    /\ client.collected # {}

\* C34: in the collection loop completed_count equals the number of results
\* collected so far, successful plus failed, and never exceeds the number of
\* items, also when future.result() raises.
C34_CounterMatchesCollected ==
  /\ completed_count = Len(successful_results) + Len(failed_results)
  /\ completed_count <= Len(expanded_urls)

\* the same over the iterations in which no future has raised so far
C34_CounterMatchesOnNormalPath ==
  (\A i \in Items : item[i].pc # "raised") => C34_CounterMatchesCollected

\* C35: in a successful result the full file path is null exactly when the
\* cleanup removed the downloaded file; with cleanup off or a failed deletion
\* it is the path of the file, which exists; and the file_cleanup step is
\* sealed as a success only if the file was deleted.
C35_Removed(i) ==
  \E k \in 1..Len(calls[i]) : calls[i][k] = Outcome("removed")

C35_FullPathNullIffRemoved ==
  \A i \in Items :
    (future[i] # << >> /\ future[i][1].success) =>
      LET audio_path == future[i][1].song_data.audio_path IN
      /\ audio_path = NoFile <=> C35_Removed(i)
      /\ audio_path # NoFile => audio_path \in files
      /\ \A k \in 1..Len(steps) :
           (/\ steps[k].step_type = "file_cleanup"
            /\ steps[k].call[1] = i
            /\ steps[k].success) => C35_Removed(i)

\* C36: every step a run starts is ended before the run returns: when all
\* items of the batch have finished, no step is active and as many records
\* are sealed as start_step_timing was called.
C36_Started(i) ==
  Cardinality({ k \in 1..Len(calls[i]) : calls[i][k].op = "start_step_timing" })

C36_Ended(i) ==
  Cardinality({ k \in 1..Len(calls[i]) : calls[i][k].op = "end_step_timing" })

C36_StartedInBatch ==
  Cardinality({ ik \in UNION { { << i, k >> : k \in 1..Len(calls[i]) } : i \in Items } :
                  calls[ik[1]][ik[2]].op = "start_step_timing" })

\* each returned run has called end_step_timing once per start_step_timing
C36_EveryStartHasItsEndCall ==
  \A i \in Items : item[i].pc = "returned" => C36_Ended(i) = C36_Started(i)

C36_AllStartedStepsSealed ==
  /\ C36_EveryStartHasItsEndCall
  /\ (\A i \in Items : item[i].pc = "returned") =>
       /\ DOMAIN active_steps = {}
       /\ Len(steps) = C36_StartedInBatch

====
